---- MODULE Spec2Model ----
(***************************************************************************)
(* A model of clipstick's token matching engine (src/src/clipstick/        *)
(* _tokens.py) and of the parse entry point (src/src/clipstick/            *)
(* _clipstick.py).                                                         *)
(*                                                                         *)
(* A string is a sequence of one-character strings, so that startswith,    *)
(* replace and concatenation are computed and not assumed.  A cursor is a  *)
(* 0-based index as in the Python source; At(values, idx) reads            *)
(* values[idx].                                                            *)
(***************************************************************************)
EXTENDS Integers, Sequences, FiniteSets, TLC

\* Longest input sequence explored.
MaxLen == 4

\* Longest input sequence explored for ListModel, the smallest schema with
\* a collection: two occurrences of the collection with a flag between them.
MaxListLen == 5

\* The longest input of the runs checked for termination.
MaxFairLen == 3

\* The longest input parsed twice.
MaxTwiceLen == 3

\* The longest list held by a collection field of an instance written out.
MaxItems == 2

(***************************************************************************)
(* Strings                                                                 *)
(***************************************************************************)
Upper == [c \in {"A", "B", "C", "I", "M", "R"} |->
            CASE c = "A" -> "a" [] c = "B" -> "b" [] c = "C" -> "c"
              [] c = "I" -> "i" [] c = "M" -> "m" [] c = "R" -> "r"]

IsUpper(c) == c \in DOMAIN Upper

IsLowerOrDigit(c) == c \in {"a", "b", "c", "d", "e", "f", "g", "h", "i", "l", "m",
                            "n", "o", "p", "r", "t", "u", "v", "x", "y", "1", "2"}

\* str.lower()
Lower(s) == [i \in 1..Len(s) |-> IF IsUpper(s[i]) THEN Upper[s[i]] ELSE s[i]]

\* field.replace("_", "-")
Dashed(s) == [i \in 1..Len(s) |-> IF s[i] = "_" THEN "-" ELSE s[i]]

\* s.startswith("-")
StartsWithDash(s) == Len(s) >= 1 /\ s[1] = "-"

IsDigit(c) == c \in {"0", "1", "2"}

\* int(w) does not raise: w is a decimal number.
IsDigits(w) == Len(w) >= 1 /\ \A i \in 1..Len(w) : IsDigit(w[i])

\* [a-zA-Z]
IsLetter(c) == IsUpper(c) \/ (IsLowerOrDigit(c) /\ ~IsDigit(c))

RECURSIVE SnakeFrom(_, _)
SnakeFrom(s, i) ==
    IF i > Len(s) THEN <<>>
    ELSE (IF i > 1 /\ (\/ IsLetter(s[i - 1]) /\ IsDigit(s[i])
                       \/ IsLowerOrDigit(s[i - 1]) /\ IsUpper(s[i]))
             THEN <<"_", s[i]>> ELSE <<s[i]>>) \o SnakeFrom(s, i + 1)

\* to_snake: an underscore between a letter and a digit and between a
\* lower-case letter or digit and an upper-case letter, then lower-cased.
\* No substitution makes room for another, so one pass makes both.
to_snake(camel) == Lower(SnakeFrom(camel, 1))

_to_false_key(field) == <<"-", "-", "n", "o", "-">> \o Dashed(field)

_to_key(field) == <<"-", "-">> \o Dashed(field)

_to_short(field) == <<"-">> \o field

_to_false_short(field) == <<"-", "n", "o", "-">> \o field

HelpKey == <<"-", "h">>

\* The elements of a sequence.
Range(s) == {s[i] : i \in 1..Len(s)}

\* values[idx] does not raise IndexError (cursors are never negative).
InRange(values, idx) == idx >= 0 /\ idx < Len(values)

\* values[idx]
At(values, idx) == values[idx + 1]

(***************************************************************************)
(* Tokens                                                                  *)
(***************************************************************************)
PositionalKinds == {"PositionalArg", "Choice"}

KeyedKinds == {"OptionalKeyArgs", "OptionalChoice"}

CollectionKinds == {"Collection", "OptionalCollection"}

FlagKinds == {"BooleanFlag", "OptionalBooleanFlag"}

\* A token: its class, field, the shorts of field_info.metadata, and of
\* field_info its default (of a bool) and its annotation: str, a Literal for
\* the choice classes, bool for the flags, list[str] for the collections.
Tok(kind, field, shorts, default) ==
    [kind |-> kind, field |-> field, shorts |-> shorts, default |-> default,
     type |-> IF kind \in {"Choice", "OptionalChoice"} THEN "Literal"
              ELSE IF kind \in FlagKinds THEN "bool"
              ELSE IF kind \in CollectionKinds THEN "list"
              ELSE "str"]

\* The token of a field annotated int.
IntTok(kind, field, shorts, default) == [Tok(kind, field, shorts, default) EXCEPT !.type = "int"]

\* Every token is required.
RequiredEveryToken(tok) == TRUE

\* The class attribute / instance attribute `required` of each token class.
Required(tok) == tok.kind \in {"PositionalArg", "Choice", "Collection", "BooleanFlag"}

\* An optional flag recognizes the spellings of both sets.
UserKeysBothSets(tok) ==
    CASE tok.kind \in PositionalKinds -> <<Dashed(tok.field)>>
      [] tok.kind \in KeyedKinds \cup CollectionKinds ->
            <<_to_key(tok.field)>> \o [i \in 1..Len(tok.shorts) |-> _to_short(tok.shorts[i])]
      [] tok.kind \in FlagKinds ->
            [i \in 1..Len(tok.shorts) |-> _to_false_short(tok.shorts[i])]
                \o [i \in 1..Len(tok.shorts) |-> _to_short(tok.shorts[i])]
                \o <<_to_key(tok.field), _to_false_key(tok.field)>>

_short_true_keys(tok) == [i \in 1..Len(tok.shorts) |-> _to_short(tok.shorts[i])]

_short_false_keys(tok) == [i \in 1..Len(tok.shorts) |-> _to_false_short(tok.shorts[i])]

_true_keys(tok) == <<_to_key(tok.field)>>

_false_keys(tok) == <<_to_false_key(tok.field)>>

\* user_keys of each token class, as a list.
user_keys(tok) ==
    CASE tok.kind \in PositionalKinds -> <<Dashed(tok.field)>>
      [] tok.kind \in KeyedKinds \cup CollectionKinds ->
            <<_to_key(tok.field)>> \o _short_true_keys(tok)
      [] tok.kind = "BooleanFlag" ->
            _short_false_keys(tok) \o _short_true_keys(tok)
                \o _true_keys(tok) \o _false_keys(tok)
      [] tok.kind = "OptionalBooleanFlag" ->
            IF tok.default = FALSE
               THEN _true_keys(tok) \o _short_true_keys(tok)
               ELSE _false_keys(tok) \o _short_false_keys(tok)

\* The mutable part of a token: _match (a dict that is empty or holds the one
\* key `field`) and used_arg.  has: _match is truthy; val, flag, items: the
\* value under `field` for a string, a bool and a list capture.
NoCapture(tok) ==
    [has |-> FALSE, val |-> <<>>, flag |-> FALSE, items |-> <<>>,
     used_arg |-> IF tok.kind \in PositionalKinds THEN Dashed(tok.field) ELSE <<>>]

\* The result of one call of a token's match: (success, idx), the token's
\* state after it, and whether it raised IndexError.
MatchResult(ok, idx, st, raised) == [ok |-> ok, idx |-> idx, st |-> st, raised |-> raised]

\* The startswith("-") test is left out.
PositionalArgMatchAnyWord(tok, st, idx, arguments) ==
    IF ~InRange(arguments, idx) THEN MatchResult(FALSE, idx, st, TRUE)
    ELSE IF st.has THEN MatchResult(FALSE, idx, st, FALSE)
    ELSE MatchResult(TRUE, idx + 1, [st EXCEPT !.has = TRUE, !.val = At(arguments, idx)], FALSE)

\* The `if self._match` test is left out: a later word replaces the capture.
PositionalArgMatchAgain(tok, st, idx, arguments) ==
    IF ~InRange(arguments, idx) THEN MatchResult(FALSE, idx, st, TRUE)
    ELSE IF StartsWithDash(At(arguments, idx)) THEN MatchResult(FALSE, idx, st, FALSE)
    ELSE MatchResult(TRUE, idx + 1, [st EXCEPT !.has = TRUE, !.val = At(arguments, idx)], FALSE)

PositionalArgMatch(tok, st, idx, arguments) ==
    IF ~InRange(arguments, idx) THEN MatchResult(FALSE, idx, st, TRUE)
    ELSE IF StartsWithDash(At(arguments, idx)) THEN MatchResult(FALSE, idx, st, FALSE)
    ELSE IF st.has THEN MatchResult(FALSE, idx, st, FALSE)
    ELSE MatchResult(TRUE, idx + 1, [st EXCEPT !.has = TRUE, !.val = At(arguments, idx)], FALSE)

\* The value is not looked at before the cursor moves past it.
OptionalKeyArgsMatchPastEnd(tok, st, idx, values) ==
    IF ~InRange(values, idx) THEN MatchResult(FALSE, idx, st, FALSE)
    ELSE IF At(values, idx) \notin Range(user_keys(tok)) THEN MatchResult(FALSE, idx, st, FALSE)
    ELSE MatchResult(TRUE, idx + 2,
                     [st EXCEPT !.used_arg = At(values, idx), !.has = TRUE,
                                !.val = IF InRange(values, idx + 1)
                                        THEN At(values, idx + 1) ELSE <<>>], FALSE)

\* A match that consumes nothing: the cursor is returned as it was given.
OptionalKeyArgsMatchInPlace(tok, st, idx, values) ==
    IF ~InRange(values, idx) THEN MatchResult(FALSE, idx, st, FALSE)
    ELSE IF At(values, idx) \notin Range(user_keys(tok)) THEN MatchResult(FALSE, idx, st, FALSE)
    ELSE MatchResult(TRUE, idx, [st EXCEPT !.used_arg = At(values, idx), !.has = TRUE], FALSE)

\* Any word that starts with a dash is taken for the key.
OptionalKeyArgsMatchAnyKey(tok, st, idx, values) ==
    IF ~InRange(values, idx) THEN MatchResult(FALSE, idx, st, FALSE)
    ELSE IF ~StartsWithDash(At(values, idx)) THEN MatchResult(FALSE, idx, st, FALSE)
    ELSE IF ~InRange(values, idx + 1)
         THEN MatchResult(FALSE, idx, [st EXCEPT !.used_arg = At(values, idx)], TRUE)
    ELSE MatchResult(TRUE, idx + 2,
                     [st EXCEPT !.used_arg = At(values, idx), !.has = TRUE,
                                !.val = At(values, idx + 1)], FALSE)

OptionalKeyArgsMatch(tok, st, idx, values) ==
    IF ~InRange(values, idx) THEN MatchResult(FALSE, idx, st, FALSE)
    ELSE IF At(values, idx) \notin Range(user_keys(tok)) THEN MatchResult(FALSE, idx, st, FALSE)
    ELSE IF ~InRange(values, idx + 1)
         THEN MatchResult(FALSE, idx, [st EXCEPT !.used_arg = At(values, idx)], TRUE)
    ELSE MatchResult(TRUE, idx + 2,
                     [st EXCEPT !.used_arg = At(values, idx), !.has = TRUE,
                                !.val = At(values, idx + 1)], FALSE)

\* The value replaces the list instead of being appended to it.
CollectionMatchKeepsLast(tok, st, idx, values) ==
    IF ~InRange(values, idx) THEN MatchResult(FALSE, idx, st, FALSE)
    ELSE IF At(values, idx) \notin Range(user_keys(tok)) THEN MatchResult(FALSE, idx, st, FALSE)
    ELSE IF ~InRange(values, idx + 1)
         THEN MatchResult(FALSE, idx, [st EXCEPT !.used_arg = At(values, idx), !.has = TRUE], TRUE)
    ELSE MatchResult(TRUE, idx + 2,
                     [st EXCEPT !.used_arg = At(values, idx), !.has = TRUE,
                                !.items = <<At(values, idx + 1)>>], FALSE)

CollectionMatch(tok, st, idx, values) ==
    IF ~InRange(values, idx) THEN MatchResult(FALSE, idx, st, FALSE)
    ELSE IF At(values, idx) \notin Range(user_keys(tok)) THEN MatchResult(FALSE, idx, st, FALSE)
    ELSE IF ~InRange(values, idx + 1)
         \* setdefault has stored the empty list before values[idx + 1] raises,
         \* and a dict with a key is truthy.
         THEN MatchResult(FALSE, idx, [st EXCEPT !.used_arg = At(values, idx), !.has = TRUE], TRUE)
    ELSE MatchResult(TRUE, idx + 2,
                     [st EXCEPT !.used_arg = At(values, idx), !.has = TRUE,
                                !.items = Append(@, At(values, idx + 1))], FALSE)

\* _match is truthy only if the value stored is.
BooleanFlagStoresTruth(tok, st, idx, values) ==
    IF Len(values) <= idx THEN MatchResult(FALSE, idx, st, FALSE)
    ELSE IF At(values, idx) \in Range(user_keys(tok))
         THEN LET value == At(values, idx) \in Range(_true_keys(tok) \o _short_true_keys(tok))
              IN  MatchResult(TRUE, idx + 1,
                              [st EXCEPT !.used_arg = At(values, idx), !.has = value,
                                         !.flag = value], FALSE)
    ELSE MatchResult(FALSE, idx, st, FALSE)

\* used_arg takes the word at the cursor before the word is compared.
BooleanFlagMatchRecordsWord(tok, st, idx, values) ==
    IF Len(values) <= idx THEN MatchResult(FALSE, idx, st, FALSE)
    ELSE IF At(values, idx) \in Range(user_keys(tok))
         THEN MatchResult(TRUE, idx + 1,
                          [st EXCEPT !.used_arg = At(values, idx), !.has = TRUE,
                                     !.flag = At(values, idx) \in
                                         Range(_true_keys(tok) \o _short_true_keys(tok))],
                          FALSE)
    ELSE MatchResult(FALSE, idx, [st EXCEPT !.used_arg = At(values, idx)], FALSE)

BooleanFlagMatch(tok, st, idx, values) ==
    IF Len(values) <= idx THEN MatchResult(FALSE, idx, st, FALSE)
    ELSE IF At(values, idx) \in Range(user_keys(tok))
         THEN MatchResult(TRUE, idx + 1,
                          [st EXCEPT !.used_arg = At(values, idx), !.has = TRUE,
                                     !.flag = At(values, idx) \in
                                         Range(_true_keys(tok) \o _short_true_keys(tok))],
                          FALSE)
    ELSE MatchResult(FALSE, idx, st, FALSE)

\* arg.match(idx, values), dispatched on the token's class.
TokenMatch(tok, st, idx, values) ==
    CASE tok.kind \in PositionalKinds -> PositionalArgMatch(tok, st, idx, values)
      [] tok.kind \in KeyedKinds -> OptionalKeyArgsMatch(tok, st, idx, values)
      [] tok.kind \in CollectionKinds -> CollectionMatch(tok, st, idx, values)
      [] tok.kind \in FlagKinds -> BooleanFlagMatch(tok, st, idx, values)

(***************************************************************************)
(* Schemas: the Command tree built from a model, root first.  A node is a  *)
(* Command (the root) or a Subcommand: its field, its class name, its      *)
(* tokens in declaration order and its subcommand variants in declaration  *)
(* order.                                                                  *)
(***************************************************************************)
Node(field, cls, toks, subs) ==
    [field |-> field, cls |-> cls, tokens |-> toks, sub_commands |-> subs]

NoShorts == <<>>

MainField == <<"m", "y", "-", "c", "l", "i">>

SubField == <<"s", "u", "b">>

\* a: str; v_1: Annotated[str, short("v")] = ...; b: Literal["x", "y"];
\* p: bool = False
FlatModel ==
    <<Node(MainField, <<"M">>,
           <<Tok("PositionalArg", <<"a">>, NoShorts, FALSE),
             Tok("OptionalKeyArgs", <<"v", "_", "1">>, <<(<<"v">>)>>, FALSE),
             Tok("Choice", <<"b">>, NoShorts, FALSE),
             Tok("OptionalBooleanFlag", <<"p">>, NoShorts, FALSE)>>,
           <<>>)>>

\* a: str; f: Annotated[bool, short("f")]; c: list[str]
RequiredModel ==
    <<Node(MainField, <<"M">>,
           <<Tok("PositionalArg", <<"a">>, NoShorts, FALSE),
             Tok("BooleanFlag", <<"f">>, <<(<<"f">>)>>, FALSE),
             Tok("Collection", <<"c">>, NoShorts, FALSE)>>,
           <<>>)>>

\* m: Annotated[list[str], short("m")] = []; c: Literal["x", "y"] = ...;
\* t: Annotated[bool, short("t")] = True
OptionalModel ==
    <<Node(MainField, <<"M">>,
           <<Tok("OptionalCollection", <<"m">>, <<(<<"m">>)>>, FALSE),
             Tok("OptionalChoice", <<"c">>, NoShorts, FALSE),
             Tok("OptionalBooleanFlag", <<"t">>, <<(<<"t">>)>>, TRUE)>>,
           <<>>)>>

\* tests/models/pydantic_models.py: MyGitModel, with class names cut to two
\* letters: Rm{url = ...; sub: Cl{depth: int} | In{verbose = True}} | Mg{branch}
GitModel ==
    <<Node(MainField, <<"G">>, <<>>, <<2, 5>>),
      Node(SubField, <<"R", "m">>,
           <<Tok("OptionalKeyArgs", <<"u">>, NoShorts, FALSE)>>, <<3, 4>>),
      Node(SubField, <<"C", "l">>,
           <<IntTok("PositionalArg", <<"d">>, NoShorts, FALSE)>>, <<>>),
      Node(SubField, <<"I", "n">>,
           <<Tok("OptionalBooleanFlag", <<"v">>, NoShorts, TRUE)>>, <<>>),
      Node(SubField, <<"M", "g">>,
           <<Tok("PositionalArg", <<"b">>, NoShorts, FALSE)>>, <<>>)>>

\* o: str = ...; sub: A{} | B{x: str}
UnionModel ==
    <<Node(MainField, <<"U">>,
           <<Tok("OptionalKeyArgs", <<"o">>, NoShorts, FALSE)>>, <<2, 3>>),
      Node(SubField, <<"A">>, <<>>, <<>>),
      Node(SubField, <<"B">>,
           <<Tok("PositionalArg", <<"x">>, NoShorts, FALSE)>>, <<>>)>>

\* c: list[str]; p: bool = False
ListModel ==
    <<Node(MainField, <<"L">>,
           <<Tok("Collection", <<"c">>, NoShorts, FALSE),
             Tok("OptionalBooleanFlag", <<"p">>, NoShorts, FALSE)>>,
           <<>>)>>

\* sub: Aa{} | Ba{o: str = ...; sub: Ca{}}: the variant with variants of its
\* own is declared last.
NestedLastModel ==
    <<Node(MainField, <<"W">>, <<>>, <<2, 3>>),
      Node(SubField, <<"A", "a">>, <<>>, <<>>),
      Node(SubField, <<"B", "a">>,
           <<Tok("OptionalKeyArgs", <<"o">>, NoShorts, FALSE)>>, <<4>>),
      Node(SubField, <<"C", "a">>, <<>>, <<>>)>>

\* a: str; f: bool = False; sub: A{f: str = ...}: the variant has a keyed
\* option under the key that is a flag of the parent.
SameKeyModel ==
    <<Node(MainField, <<"M">>,
           <<Tok("PositionalArg", <<"a">>, NoShorts, FALSE),
             Tok("OptionalBooleanFlag", <<"f">>, NoShorts, FALSE)>>,
           <<2>>),
      Node(SubField, <<"A">>,
           <<Tok("OptionalKeyArgs", <<"f">>, NoShorts, FALSE)>>, <<>>)>>

Schemas ==
    {FlatModel, RequiredModel, OptionalModel, GitModel, UnionModel, ListModel,
     NestedLastModel}

\* Subcommand.user_keys
SubcommandUserKeys(node) == <<Dashed(to_snake(node.cls))>>

\* Every spelling a token could be given by, recognized by it or not.
Spellings(tok) ==
    IF tok.kind \in PositionalKinds THEN {}
    ELSE IF tok.kind \in FlagKinds
         THEN Range(_true_keys(tok) \o _false_keys(tok)
                        \o _short_true_keys(tok) \o _short_false_keys(tok))
    ELSE Range(user_keys(tok))

PlainValues == {<<"x">>, <<"y">>}

\* The members of the Literal of every choice field.
Choices == {<<"x">>, <<"y">>}

\* The words inputs are drawn from: every spelling of the schema, the names
\* of its subcommands, the help marker, two plain values and, for a schema
\* with an int field, a number.
Alphabet(nodes) ==
    UNION {UNION {Spellings(nodes[n].tokens[i])
                    \cup (IF nodes[n].tokens[i].type = "int" THEN {<<"1">>} ELSE {})
                    : i \in 1..Len(nodes[n].tokens)}
              : n \in 1..Len(nodes)}
      \cup {SubcommandUserKeys(nodes[n])[1] : n \in 2..Len(nodes)}
      \cup {HelpKey} \cup PlainValues

SeqsUpTo(S, n) == UNION {[1..k -> S] : k \in 0..n}

(***************************************************************************)
(* The state of one match                                                  *)
(***************************************************************************)
VARIABLES
    schema,        \* the Command tree (the static part of every node)
    arguments,     \* the input sequence
    tokens,        \* tokens[n][i]: _match and used_arg of token i of node n
    sub_commands,  \* sub_commands[n]: Command.sub_commands of node n
    stack,         \* the active calls of match, outermost first
    returns,       \* returns[n]: the last (success, idx) node n's match returned
    outcome,       \* how the outermost call of match ended
    built,         \* Command.parse: each node's _match, and how parse ended
    first,         \* how the parse on the tree built before this one ended
    cli            \* one call of parse(model, args): see ParseInit

vars == <<schema, arguments, tokens, sub_commands, stack, returns, outcome, built, first,
          cli>>

\* One active call of Subcommand.match / Command.match on `node`.
\* entry: the idx the call was given; start_idx, idx: Command.match's locals;
\* k: the position of the `for sub_command in self.sub_commands` loop;
\* subcommand: the local `subcommand` (0: None).
Frame(node, pc, entry) ==
    [node |-> node, pc |-> pc, entry |-> entry, start_idx |-> entry, idx |-> entry,
     k |-> 1, subcommand |-> 0]

NotReturned == [done |-> FALSE, success |-> FALSE, idx |-> 0, entry |-> 0]

Outcome(kind, success, idx, key, code, node) ==
    [kind |-> kind, success |-> success, idx |-> idx, key |-> key, code |-> code,
     node |-> node]

Running == Outcome("running", FALSE, 0, <<>>, 0, 0)

\* parse is not called.
NoCall == [stage |-> "none"]

\* A Command before its parse: Command._match is empty.  match: what parse()
\* of each token added; sub: the node whose instance is under the subcommand
\* field (0: no such key); instance: model_validate has returned.
NotBuilt == [parsed |-> FALSE, match |-> <<>>, sub |-> 0, instance |-> FALSE]

\* No tree was built before this one.
NoFirst == [kind |-> "none"]

Init ==
    /\ schema \in Schemas
    /\ arguments \in SeqsUpTo(Alphabet(schema),
                                IF schema = ListModel THEN MaxListLen ELSE MaxLen)
    /\ tokens = [n \in 1..Len(schema) |->
                    [i \in 1..Len(schema[n].tokens) |-> NoCapture(schema[n].tokens[i])]]
    /\ sub_commands = [n \in 1..Len(schema) |-> schema[n].sub_commands]
    /\ stack = <<Frame(1, "enter", 0)>>
    /\ returns = [n \in 1..Len(schema) |-> NotReturned]
    /\ outcome = Running
    /\ built = [result |-> "none", node |-> 0, nodes |-> [n \in 1..Len(schema) |-> NotBuilt]]
    /\ first = NoFirst
    /\ cli = NoCall

Top == stack[Len(stack)]

Callers == SubSeq(stack, 1, Len(stack) - 1)

At_(pc) == outcome.kind = "running" /\ stack # <<>> /\ Top.pc = pc

\* An exception leaves every active call.
Raise(kind, idx, key, code, node) ==
    /\ outcome' = Outcome(kind, FALSE, idx, key, code, node)
    /\ stack' = <<>>

\* The help marker is looked for at the start of the input only.
IsHelpKeyAtStart(idx, values) == idx = 0 /\ InRange(values, idx) /\ At(values, idx) = HelpKey

_is_help_key(idx, values) == InRange(values, idx) /\ At(values, idx) = HelpKey

\* "/".join(keys)
RECURSIVE Join(_)
Join(keys) ==
    IF Len(keys) = 0 THEN <<>>
    ELSE IF Len(keys) = 1 THEN keys[1]
    ELSE keys[1] \o <<"/">> \o Join(Tail(keys))

\* The pass goes on after a token matched: every token is offered the
\* cursor the ones before it left.
RECURSIVE ScanFromEveryToken(_, _, _, _, _)
ScanFromEveryToken(toks, sts, i, idx, values) ==
    IF i > Len(toks)
    THEN [found |-> FALSE, idx |-> idx, sts |-> sts, raised |-> FALSE]
    ELSE LET r == TokenMatch(toks[i], sts[i], idx, values)
             after == [sts EXCEPT ![i] = r.st]
             rest == ScanFromEveryToken(toks, after, i + 1, r.idx, values)
         IN  IF r.raised THEN [found |-> FALSE, idx |-> r.idx, sts |-> after, raised |-> TRUE]
             ELSE IF r.ok /\ ~rest.raised THEN [rest EXCEPT !.found = TRUE]
             ELSE rest

\* `for arg in self.tokens.values()` from token i on: the first token whose
\* match succeeds ends the pass.
RECURSIVE ScanFrom(_, _, _, _, _)
ScanFrom(toks, sts, i, idx, values) ==
    IF i > Len(toks)
    THEN [found |-> FALSE, idx |-> idx, sts |-> sts, raised |-> FALSE]
    ELSE LET r == TokenMatch(toks[i], sts[i], idx, values)
             after == [sts EXCEPT ![i] = r.st]
         IN  IF r.raised THEN [found |-> FALSE, idx |-> r.idx, sts |-> after, raised |-> TRUE]
             ELSE IF r.ok THEN [found |-> TRUE, idx |-> r.idx, sts |-> after, raised |-> FALSE]
             ELSE ScanFrom(toks, after, i + 1, r.idx, values)

\* The pass offers the cursor to the tokens last to first.
RECURSIVE ScanBackFrom(_, _, _, _, _)
ScanBackFrom(toks, sts, i, idx, values) ==
    IF i < 1
    THEN [found |-> FALSE, idx |-> idx, sts |-> sts, raised |-> FALSE]
    ELSE LET r == TokenMatch(toks[i], sts[i], idx, values)
             after == [sts EXCEPT ![i] = r.st]
         IN  IF r.raised THEN [found |-> FALSE, idx |-> r.idx, sts |-> after, raised |-> TRUE]
             ELSE IF r.ok THEN [found |-> TRUE, idx |-> r.idx, sts |-> after, raised |-> FALSE]
             ELSE ScanBackFrom(toks, after, i - 1, r.idx, values)

CheckArgReversed(toks, sts, idx, values) ==
    IF Len(values) = idx
    THEN [found |-> FALSE, idx |-> idx, sts |-> sts, raised |-> FALSE]
    ELSE ScanBackFrom(toks, sts, Len(toks), idx, values)

_check_arg_or_optional(toks, sts, idx, values) ==
    IF Len(values) = idx
    THEN [found |-> FALSE, idx |-> idx, sts |-> sts, raised |-> FALSE]
    ELSE ScanFrom(toks, sts, 1, idx, values)

\* Only the positional classes are checked.
NonMatchingPositional(toks, sts) ==
    SelectSeq([i \in 1..Len(toks) |-> i],
              LAMBDA i : toks[i].kind \in PositionalKinds /\ ~sts[i].has)

\* The uncaptured required tokens, last declared first.
NonMatchingLastFirst(toks, sts) ==
    LET open == SelectSeq([i \in 1..Len(toks) |-> i],
                          LAMBDA i : Required(toks[i]) /\ ~sts[i].has)
    IN  [k \in 1..Len(open) |-> open[Len(open) + 1 - k]]

\* The required tokens without a capture, in declaration order.
NonMatchingRequired(toks, sts) ==
    SelectSeq([i \in 1..Len(toks) |-> i], LAMBDA i : Required(toks[i]) /\ ~sts[i].has)

\* `while found_match: found_match, idx = _check_arg_or_optional(idx, arguments)`
\* run to its end.
RECURSIVE ScanAll(_, _, _, _)
ScanAll(toks, sts, idx, values) ==
    LET r == _check_arg_or_optional(toks, sts, idx, values)
    IN  IF r.raised \/ ~r.found THEN r ELSE ScanAll(toks, r.sts, r.idx, values)

\* Command.match of a node without subcommands on a fresh tree, from cursor 0.
MatchFlat(toks, values) ==
    LET fresh == [i \in 1..Len(toks) |-> NoCapture(toks[i])]
        r == ScanAll(toks, fresh, 0, values)
    IN  IF _is_help_key(0, values) THEN [kind |-> "SystemExit", idx |-> 0, sts |-> fresh]
        ELSE IF r.raised THEN [kind |-> "IndexError", idx |-> r.idx, sts |-> r.sts]
        ELSE IF NonMatchingRequired(toks, r.sts) # <<>>
             THEN [kind |-> "MissingPositional", idx |-> r.idx, sts |-> r.sts]
        ELSE [kind |-> "returned", idx |-> r.idx, sts |-> r.sts]

\* The cursor a variant returns is dropped.
AfterVariantKeepsCursor(caller, node, success, idx) ==
    [caller EXCEPT !.subcommand = IF success THEN node ELSE @,
                   !.k = @ + 1]

\* What the caller's loop does with the (success, idx) a variant returned:
\* `success, idx = sub_command.match(idx, arguments)` and the lines after it.
AfterVariant(caller, node, success, idx) ==
    [caller EXCEPT !.idx = idx,
                   !.subcommand = IF success THEN node ELSE @,
                   !.k = @ + 1]

\* `return success, idx` of the innermost call.
Return(success, idx) ==
    /\ returns' = [returns EXCEPT ![Top.node] =
                      [done |-> TRUE, success |-> success, idx |-> idx, entry |-> Top.entry]]
    /\ IF Callers = <<>>
       THEN /\ outcome' = Outcome("returned", success, idx, <<>>, 0, Top.node)
            /\ stack' = <<>>
       ELSE LET caller == Callers[Len(Callers)]
            IN  IF success /\ caller.subcommand # 0
                THEN Raise("ValueError", idx, <<>>, 0, caller.node)
                ELSE /\ outcome' = outcome
                     /\ stack' = [Callers EXCEPT ![Len(Callers)] =
                                     AfterVariant(caller, Top.node, success, idx)]

\* Subcommand.match: the name check, then Command.match one slot further.
SubcommandMatch ==
    /\ At_("name")
    /\ IF ~InRange(arguments, Top.idx)
          \/ At(arguments, Top.idx) \notin Range(SubcommandUserKeys(schema[Top.node]))
       THEN Return(FALSE, Top.idx)
       ELSE /\ stack' = [stack EXCEPT ![Len(stack)] =
                            [@ EXCEPT !.pc = "enter", !.start_idx = Top.idx + 1,
                                      !.idx = Top.idx + 1]]
            /\ UNCHANGED <<returns, outcome>>
    /\ UNCHANGED <<cli, first, built, schema, arguments, tokens, sub_commands>>

\* Command.match, up to the scan loop: help interception.
HelpCheck ==
    /\ At_("enter")
    /\ IF _is_help_key(Top.idx, arguments)
       THEN Raise("SystemExit", Top.idx, <<>>, 0, Top.node)
       ELSE /\ stack' = [stack EXCEPT ![Len(stack)] = [@ EXCEPT !.pc = "scan"]]
            /\ outcome' = outcome
    /\ UNCHANGED <<cli, first, built, schema, arguments, tokens, sub_commands, returns>>

\* The help marker is looked for before every pass of the scan as well.
ScanPassChecksHelp ==
    /\ At_("scan")
    /\ LET n == Top.node
           r == _check_arg_or_optional(schema[n].tokens, tokens[n], Top.idx, arguments)
       IN  IF _is_help_key(Top.idx, arguments)
           THEN /\ Raise("SystemExit", Top.idx, <<>>, 0, n)
                /\ tokens' = tokens
           ELSE /\ tokens' = [tokens EXCEPT ![n] = r.sts]
                /\ IF r.raised
                   THEN Raise("IndexError", r.idx, <<>>, 0, n)
                   ELSE /\ stack' = [stack EXCEPT ![Len(stack)] =
                                        [@ EXCEPT !.idx = r.idx,
                                                  !.pc = IF r.found THEN "scan" ELSE "check"]]
                        /\ outcome' = outcome
    /\ UNCHANGED <<cli, first, built, schema, arguments, sub_commands, returns>>

\* One iteration of `while found_match`.
ScanPass ==
    /\ At_("scan")
    /\ LET n == Top.node
           r == _check_arg_or_optional(schema[n].tokens, tokens[n], Top.idx, arguments)
       IN  /\ tokens' = [tokens EXCEPT ![n] = r.sts]
           /\ IF r.raised
              THEN Raise("IndexError", r.idx, <<>>, 0, n)
              ELSE /\ stack' = [stack EXCEPT ![Len(stack)] =
                                   [@ EXCEPT !.idx = r.idx,
                                             !.pc = IF r.found THEN "scan" ELSE "check"]]
                   /\ outcome' = outcome
    /\ UNCHANGED <<cli, first, built, schema, arguments, sub_commands, returns>>

\* The completeness check, and the return of a node without subcommands.
CompletenessCheck ==
    /\ At_("check")
    /\ LET n == Top.node
           missing == NonMatchingRequired(schema[n].tokens, tokens[n])
       IN  IF missing # <<>>
           THEN /\ Raise("MissingPositional", Top.idx,
                         Join(user_keys(schema[n].tokens[missing[1]])), 0, n)
                /\ UNCHANGED returns
           ELSE IF Len(sub_commands[n]) = 0
           THEN Return(TRUE, Top.idx)
           ELSE /\ stack' = [stack EXCEPT ![Len(stack)] =
                                [@ EXCEPT !.pc = "subs", !.k = 1, !.subcommand = 0]]
                /\ UNCHANGED <<returns, outcome>>
    /\ UNCHANGED <<cli, first, built, schema, arguments, tokens, sub_commands>>

\* `sub_command.match(idx, arguments)` for the next variant of the loop.
TrySubcommand ==
    /\ At_("subs")
    /\ Top.k <= Len(sub_commands[Top.node])
    /\ stack' = Append(stack, Frame(sub_commands[Top.node][Top.k], "name", Top.idx))
    /\ UNCHANGED <<cli, first, built, schema, arguments, tokens, sub_commands, returns, outcome>>

\* The assignment is left out.
CommittedKeepsAll(subs, subcommand) == subs

\* `self.sub_commands = [subcommand]`
Committed(subs, subcommand) == <<subcommand>>

\* After the loop over the variants.
SubcommandsDone ==
    /\ At_("subs")
    /\ Top.k > Len(sub_commands[Top.node])
    /\ IF Top.subcommand = 0
       THEN /\ Return(FALSE, Top.start_idx)
            /\ UNCHANGED sub_commands
       ELSE /\ sub_commands' = [sub_commands EXCEPT ![Top.node] =
                                       Committed(sub_commands[Top.node], Top.subcommand)]
            /\ Return(TRUE, Top.idx)
    /\ UNCHANGED <<cli, first, built, schema, arguments, tokens>>

\* parse() of a token that never matched returns its field with no value.
MappingWithEveryField(sts) ==
    [i \in DOMAIN sts |->
        [has |-> TRUE, val |-> sts[i].val, flag |-> sts[i].flag, items |-> sts[i].items]]

\* parse() of every token: the _match dicts, without used_arg.
Mapping(sts) ==
    [i \in DOMAIN sts |->
        [has |-> sts[i].has, val |-> sts[i].val, flag |-> sts[i].flag, items |-> sts[i].items]]

\* cls.model_validate(_match) raises ValidationError: a field without a
\* default has no key, or a value is not of the field's annotation.  A bool
\* and a list of strings are what the flag and collection classes store.
ModelValidateRaises(toks, match) ==
    \E i \in 1..Len(toks) :
        \/ Required(toks[i]) /\ ~match[i].has
        \/ match[i].has /\ toks[i].type = "int" /\ ~IsDigits(match[i].val)
        \/ match[i].has /\ toks[i].type = "Literal" /\ match[i].val \notin Choices

\* Command.parse is called on the root of a tree whose match has returned.
CallParse ==
    /\ outcome.kind = "returned" /\ stack = <<>> /\ built.result = "none"
    /\ stack' = <<Frame(1, "parse", 0)>>
    /\ built' = [built EXCEPT !.result = "parsing"]
    /\ UNCHANGED <<cli, first, schema, arguments, tokens, sub_commands, returns, outcome>>

\* parse() of the subcommand is not called before the node is validated.
CommandParseValidatesFirst ==
    /\ built.result = "parsing" /\ stack # <<>> /\ Top.pc = "parse"
    /\ LET n == Top.node
       IN  /\ built' = [built EXCEPT !.nodes[n] =
                           [@ EXCEPT !.parsed = TRUE, !.match = Mapping(tokens[n])]]
           /\ stack' = [stack EXCEPT ![Len(stack)] = [@ EXCEPT !.pc = "validate"]]
    /\ UNCHANGED <<cli, first, schema, arguments, tokens, sub_commands, returns, outcome>>

\* parse() goes into the variant declared first, committed or not.
CommandParseFirstDeclared ==
    /\ built.result = "parsing" /\ stack # <<>> /\ Top.pc = "parse"
    /\ LET n == Top.node
           subs == schema[n].sub_commands
           here == [stack EXCEPT ![Len(stack)] = [@ EXCEPT !.pc = "validate"]]
       IN  /\ built' = [built EXCEPT !.nodes[n] =
                           [@ EXCEPT !.parsed = TRUE, !.match = Mapping(tokens[n])]]
           /\ stack' = IF subs # <<>> THEN Append(here, Frame(subs[1], "parse", 0)) ELSE here
    /\ UNCHANGED <<cli, first, schema, arguments, tokens, sub_commands, returns, outcome>>

\* Command.parse up to the call of subcommand.parse(): _match takes what
\* parse() of every token returns.
CommandParse ==
    /\ built.result = "parsing" /\ stack # <<>> /\ Top.pc = "parse"
    /\ LET n == Top.node
           subs == sub_commands[n]
           here == [stack EXCEPT ![Len(stack)] = [@ EXCEPT !.pc = "validate"]]
       IN  /\ built' = [built EXCEPT !.nodes[n] =
                           [@ EXCEPT !.parsed = TRUE, !.match = Mapping(tokens[n])]]
           /\ stack' = IF subs # <<>> THEN Append(here, Frame(subs[1], "parse", 0)) ELSE here
    /\ UNCHANGED <<cli, first, schema, arguments, tokens, sub_commands, returns, outcome>>

\* The rest of Command.parse: the subcommand's instance goes under its field,
\* then `return self.cls.model_validate(self._match)`, or FieldError for the
\* ValidationError of this node.  A FieldError leaves every active call.
ModelValidate ==
    /\ built.result = "parsing" /\ stack # <<>> /\ Top.pc = "validate"
    /\ LET n == Top.node
           subs == sub_commands[n]
       IN  IF ModelValidateRaises(schema[n].tokens, built.nodes[n].match)
           THEN /\ built' = [built EXCEPT !.result = "FieldError", !.node = n,
                                          !.nodes[n].sub = IF subs # <<>> THEN subs[1] ELSE 0]
                /\ stack' = <<>>
           ELSE /\ built' = [built EXCEPT !.result = IF Callers = <<>> THEN "instance" ELSE @,
                                          !.node = IF Callers = <<>> THEN n ELSE @,
                                          !.nodes[n].sub = IF subs # <<>> THEN subs[1] ELSE 0,
                                          !.nodes[n].instance = TRUE]
                /\ stack' = Callers
    /\ UNCHANGED <<cli, first, schema, arguments, tokens, sub_commands, returns, outcome>>

\* Every token of every tree keeps the _match of the tree built before.
TokensOfTheLastTree(nodes) == tokens

\* The tokens of a tree as their constructors leave them: no capture.
NewTokens(nodes) ==
    [n \in 1..Len(nodes) |-> [i \in 1..Len(nodes[n].tokens) |-> NoCapture(nodes[n].tokens[i])]]

\* A parse has ended: an exception left match, or parse returned or raised.
ParseEnded ==
    /\ stack = <<>>
    /\ \/ outcome.kind \notin {"running", "returned"}
       \/ built.result \in {"instance", "FieldError"}

\* A second tree is built for the same schema, to be given the same input:
\* the constructors of Command and of every token run again.
Rebuild ==
    /\ ParseEnded /\ first.kind = "none"
    /\ first' = [kind |-> "ended", outcome |-> outcome, built |-> built]
    /\ tokens' = NewTokens(schema)
    /\ sub_commands' = [n \in 1..Len(schema) |-> schema[n].sub_commands]
    /\ stack' = <<Frame(1, "enter", 0)>>
    /\ returns' = [n \in 1..Len(schema) |-> NotReturned]
    /\ outcome' = Running
    /\ built' = [result |-> "none", node |-> 0, nodes |-> [n \in 1..Len(schema) |-> NotBuilt]]
    /\ UNCHANGED <<cli, schema, arguments>>

Next ==
    \/ SubcommandMatch
    \/ HelpCheck
    \/ ScanPass
    \/ CompletenessCheck
    \/ TrySubcommand
    \/ SubcommandsDone
    \/ CallParse
    \/ CommandParse
    \/ ModelValidate

Spec == Init /\ [][Next]_vars

\* Two parses of one input, the second on a tree built after the first ended.
TwiceInit == Init /\ Len(arguments) <= MaxTwiceLen

TwiceNext == Rebuild \/ Next

TwiceSpec == TwiceInit /\ [][TwiceNext]_vars

\* The inputs of the runs whose end is checked.
FairInit == Init /\ Len(arguments) <= MaxFairLen

\* A call of match that can take a step takes it: the interpreter runs on.
FairSpec == FairInit /\ [][Next]_vars /\ WF_vars(Next)

\* match is called a second time on the root of the same tree, with the same
\* input, after a first match that returned success: no constructor runs in
\* between, so every token keeps its _match and used_arg and every node the
\* sub_commands the first match left.  first keeps how the first match ended.
MatchAgain ==
    /\ outcome.kind = "returned" /\ outcome.success /\ stack = <<>>
    /\ built.result = "none" /\ first.kind = "none"
    /\ first' = [kind |-> "matched", outcome |-> outcome, tokens |-> tokens]
    /\ stack' = <<Frame(1, "enter", 0)>>
    /\ returns' = [n \in 1..Len(schema) |-> NotReturned]
    /\ outcome' = Running
    /\ UNCHANGED <<cli, built, schema, arguments, tokens, sub_commands>>

AgainNext == MatchAgain \/ Next

\* The trees that are matched twice: those of Init and SameKeyModel.
AgainInit ==
    /\ schema \in Schemas \cup {SameKeyModel}
    /\ arguments \in SeqsUpTo(Alphabet(schema), MaxTwiceLen)
    /\ tokens = NewTokens(schema)
    /\ sub_commands = [n \in 1..Len(schema) |-> schema[n].sub_commands]
    /\ stack = <<Frame(1, "enter", 0)>>
    /\ returns = [n \in 1..Len(schema) |-> NotReturned]
    /\ outcome = Running
    /\ built = [result |-> "none", node |-> 0, nodes |-> [n \in 1..Len(schema) |-> NotBuilt]]
    /\ first = NoFirst
    /\ cli = NoCall

\* Two matches of one input on one tree.
AgainSpec == AgainInit /\ [][AgainNext]_vars

(***************************************************************************)
(* An instance written out as the token spellings match accepts, and       *)
(* matched again.  An instance is the path of nodes from the root to a     *)
(* leaf and, for each node on it, the value of every field: has is FALSE   *)
(* for an optional field left at its default.                              *)
(***************************************************************************)
Cap(has, val, flag, items) == [has |-> has, val |-> val, flag |-> flag, items |-> items]

AtDefault == Cap(FALSE, <<>>, FALSE, <<>>)

\* The strings and numbers a field of an instance holds.
FieldStrings == PlainValues \cup {<<"-", "x">>}

FieldInts == {<<"1">>, <<"-", "1">>}

ListsFrom(n) == UNION {[1..k -> PlainValues] : k \in n..MaxItems}

\* The values the field of a token can hold in an instance of the model.
FieldValues(tok) ==
    CASE tok.kind = "PositionalArg" ->
            {Cap(TRUE, v, FALSE, <<>>) :
                v \in IF tok.type = "int" THEN FieldInts ELSE FieldStrings}
      [] tok.kind = "Choice" -> {Cap(TRUE, v, FALSE, <<>>) : v \in Choices}
      [] tok.kind = "OptionalKeyArgs" ->
            {AtDefault} \cup {Cap(TRUE, v, FALSE, <<>>) : v \in FieldStrings}
      [] tok.kind = "OptionalChoice" ->
            {AtDefault} \cup {Cap(TRUE, v, FALSE, <<>>) : v \in Choices}
      [] tok.kind = "BooleanFlag" -> {Cap(TRUE, <<>>, b, <<>>) : b \in BOOLEAN}
      [] tok.kind = "OptionalBooleanFlag" ->
            {AtDefault, Cap(TRUE, <<>>, tok.default = FALSE, <<>>)}
      [] tok.kind = "Collection" -> {Cap(TRUE, <<>>, FALSE, l) : l \in ListsFrom(0)}
      [] tok.kind = "OptionalCollection" ->
            {AtDefault} \cup {Cap(TRUE, <<>>, FALSE, l) : l \in ListsFrom(1)}

\* The field values of one node: one value for each token from token i on.
RECURSIVE NodeInstances(_, _)
NodeInstances(toks, i) ==
    IF i > Len(toks) THEN {<<>>}
    ELSE {<<v>> \o rest : v \in FieldValues(toks[i]), rest \in NodeInstances(toks, i + 1)}

\* The paths from node n to a leaf: one variant at every subcommand field.
RECURSIVE PathsFrom(_, _)
PathsFrom(nodes, n) ==
    IF nodes[n].sub_commands = <<>> THEN {<<n>>}
    ELSE {<<n>> \o p : p \in UNION {PathsFrom(nodes, nodes[n].sub_commands[k]) :
                                        k \in 1..Len(nodes[n].sub_commands)}}

\* The field values of the nodes from n on: those of a node off the path are
\* not part of the instance.
RECURSIVE TreeInstances(_, _, _)
TreeInstances(nodes, path, n) ==
    IF n > Len(nodes) THEN {<<>>}
    ELSE {<<m>> \o rest :
            m \in IF n \in Range(path) THEN NodeInstances(nodes[n].tokens, 1)
                  ELSE {[i \in 1..Len(nodes[n].tokens) |-> AtDefault]},
            rest \in TreeInstances(nodes, path, n + 1)}

Instances(nodes) ==
    UNION {{[kind |-> "instance", path |-> path, nodes |-> t] :
                t \in TreeInstances(nodes, path, 1)} : path \in PathsFrom(nodes, 1)}

\* key, item for every item of a list.
RECURSIVE WriteItems(_, _, _)
WriteItems(key, items, i) ==
    IF i > Len(items) THEN <<>> ELSE <<key, items[i]>> \o WriteItems(key, items, i + 1)

\* One field as the tokens its token class matches: nothing for a field at
\* its default, the value for a positional, key and value for a keyed
\* field, the spelling of its truth value for a flag.
WriteToken(tok, cap) ==
    IF ~cap.has THEN <<>>
    ELSE CASE tok.kind \in PositionalKinds -> <<cap.val>>
           [] tok.kind \in KeyedKinds -> <<user_keys(tok)[1], cap.val>>
           [] tok.kind \in CollectionKinds -> WriteItems(user_keys(tok)[1], cap.items, 1)
           [] tok.kind \in FlagKinds ->
                 IF cap.flag THEN <<_true_keys(tok)[1]>> ELSE <<_false_keys(tok)[1]>>

RECURSIVE WriteTokens(_, _, _)
WriteTokens(toks, caps, i) ==
    IF i > Len(toks) THEN <<>>
    ELSE WriteToken(toks[i], caps[i]) \o WriteTokens(toks, caps, i + 1)

\* The nodes of the path from its k-th on: the name of a subcommand, then the
\* fields of the node in declaration order, then the variant below.
RECURSIVE WriteFrom(_, _, _)
WriteFrom(nodes, inst, k) ==
    IF k > Len(inst.path) THEN <<>>
    ELSE LET n == inst.path[k]
         IN  (IF k > 1 THEN SubcommandUserKeys(nodes[n]) ELSE <<>>)
                 \o WriteTokens(nodes[n].tokens, inst.nodes[n], 1)
                 \o WriteFrom(nodes, inst, k + 1)

WriteOut(nodes, inst) == WriteFrom(nodes, inst, 1)

\* A tree is built for the schema of a known instance; `first` is the
\* instance.
RoundTripInit ==
    /\ schema \in Schemas
    /\ first \in Instances(schema)
    /\ arguments = <<>>
    /\ tokens = NewTokens(schema)
    /\ sub_commands = [n \in 1..Len(schema) |-> schema[n].sub_commands]
    /\ stack = <<>>
    /\ returns = [n \in 1..Len(schema) |-> NotReturned]
    /\ outcome = Running
    /\ built = [result |-> "none", node |-> 0, nodes |-> [n \in 1..Len(schema) |-> NotBuilt]]
    /\ cli = NoCall

\* The instance is written out and match is called on the root with it.
MatchWritten ==
    /\ first.kind = "instance"
    /\ first' = [first EXCEPT !.kind = "written"]
    /\ arguments' = WriteOut(schema, first)
    /\ stack' = <<Frame(1, "enter", 0)>>
    /\ UNCHANGED <<cli, schema, tokens, sub_commands, returns, outcome, built>>

RoundTripNext ==
    \/ MatchWritten
    \/ SubcommandMatch
    \/ HelpCheck
    \/ ScanPass
    \/ CompletenessCheck
    \/ TrySubcommand
    \/ SubcommandsDone
    \/ CallParse
    \/ CommandParse
    \/ ModelValidate

RoundTripSpec == RoundTripInit /\ [][RoundTripNext]_vars

(***************************************************************************)
(* parse(model, args) of _clipstick.py.  A program is the sequence of the  *)
(* classes a model is made of, the class given to parse first.  A field's  *)
(* annotation is str, int, bool or a Union; the members of a Union are     *)
(* classes of the program (0: the builtin class int).                      *)
(***************************************************************************)
Cls(base, name, fields) == [base |-> base, name |-> name, fields |-> fields]

Fld(key, annotation, has_default, shorts, members) ==
    [key |-> key, annotation |-> annotation, has_default |-> has_default,
     shorts |-> shorts, members |-> members]

\* tests/models/pydantic_models.py
SimpleModel ==
    <<Cls("BaseModel", <<"S">>, <<Fld(<<"m", "_", "v">>, "str", FALSE, <<>>, <<>>)>>)>>

IntModel ==
    <<Cls("BaseModel", <<"I">>, <<Fld(<<"m", "_", "v">>, "int", FALSE, <<>>, <<>>)>>)>>

OptionalsModel ==
    <<Cls("BaseModel", <<"O">>,
          <<Fld(<<"v", "_", "1">>, "int", TRUE, <<>>, <<>>),
            Fld(<<"v", "_", "2">>, "str", TRUE, <<>>, <<>>)>>)>>

OptionalWithShort ==
    <<Cls("BaseModel", <<"W">>,
          <<Fld(<<"v", "_", "1">>, "int", TRUE, <<(<<"v">>)>>, <<>>),
            Fld(<<"p">>, "bool", TRUE, <<>>, <<>>)>>)>>

\* Two fields of one model annotated short("v").
TwoShorts ==
    <<Cls("BaseModel", <<"T">>,
          <<Fld(<<"a">>, "str", TRUE, <<(<<"v">>)>>, <<>>),
            Fld(<<"b">>, "str", TRUE, <<(<<"v">>)>>, <<>>)>>)>>

\* The same two fields in a variant of the root's subcommand union.
NestedTwoShorts ==
    <<Cls("BaseModel", <<"N">>, <<Fld(<<"s", "u", "b">>, "Union", FALSE, <<>>, <<2, 3>>)>>),
      TwoShorts[1],
      SimpleModel[1]>>

\* sub: Union[SimpleModel, int]
MixedUnion ==
    <<Cls("BaseModel", <<"X">>, <<Fld(<<"s", "u", "b">>, "Union", FALSE, <<>>, <<2, 0>>)>>),
      SimpleModel[1]>>

\* Neither a pydantic model nor a dataclass.
NotAModel == <<Cls("object", <<"Z">>, <<>>)>>

\* tests/models/pydantic_models.py: MyGitModel, with the names cut short:
\* G{sub: Rm | Mg}; Rm{u: str = ...; sub: Cl | In}; Cl{d: int};
\* In{v: bool = True}; Mg{b: str}
GitProgram ==
    <<Cls("BaseModel", <<"G">>, <<Fld(<<"s", "u", "b">>, "Union", FALSE, <<>>, <<2, 5>>)>>),
      Cls("BaseModel", <<"R", "m">>,
          <<Fld(<<"u">>, "str", TRUE, <<>>, <<>>),
            Fld(<<"s", "u", "b">>, "Union", FALSE, <<>>, <<3, 4>>)>>),
      Cls("BaseModel", <<"C", "l">>, <<Fld(<<"d">>, "int", FALSE, <<>>, <<>>)>>),
      Cls("BaseModel", <<"I", "n">>, <<Fld(<<"v">>, "bool", TRUE, <<>>, <<>>)>>),
      Cls("BaseModel", <<"M", "g">>, <<Fld(<<"b">>, "str", FALSE, <<>>, <<>>)>>)>>

\* sub: Ab | AB, two classes that to_snake gives the one name "ab".
SameNames ==
    <<Cls("BaseModel", <<"D">>, <<Fld(<<"s", "u", "b">>, "Union", FALSE, <<>>, <<2, 3>>)>>),
      Cls("BaseModel", <<"A", "b">>, <<>>),
      Cls("BaseModel", <<"A", "B">>, <<Fld(<<"m", "_", "v">>, "str", FALSE, <<>>, <<>>)>>)>>

Programs == {SimpleModel, IntModel, OptionalsModel, OptionalWithShort, TwoShorts,
             NestedTwoShorts, MixedUnion, NotAModel, GitProgram, SameNames}

\* field_info.default of a field declared without a default.
PydanticUndefined == "PydanticUndefined"

\* ArgsModel.from_pydantic: default_value = field_info.default, and NO_VALUE
\* in the place of PydanticUndefined; None, False and every other default
\* are kept as they are.
FromFieldInfo(key, annotation, default) ==
    Fld(key, annotation, default # PydanticUndefined, <<>>, <<>>)

\* class M(BaseModel): r: str; n: int | None = None; s: str = "ABC";
\* p: bool = False
Declared ==
    <<[key |-> <<"r">>, annotation |-> "str", default |-> PydanticUndefined],
      [key |-> <<"n">>, annotation |-> "int", default |-> "None"],
      [key |-> <<"s">>, annotation |-> "str", default |-> "ABC"],
      [key |-> <<"p">>, annotation |-> "bool", default |-> "False"]>>

DefaultsModel ==
    <<Cls("BaseModel", <<"M">>,
          [i \in 1..Len(Declared) |->
              FromFieldInfo(Declared[i].key, Declared[i].annotation, Declared[i].default)])>>

\* The programs the classification of fields is explored on.
DefaultsPrograms == {DefaultsModel, OptionalsModel, OptionalWithShort, SimpleModel}

\* Arg.argument
Argument(fld) == Dashed(fld.key)

\* Arg.required: the default is NO_VALUE.
ArgRequired(fld) == ~fld.has_default

\* The words inputs are drawn from: for every field its long option, its
\* shorts and, for a bool, its negation; for a union the names of its member
\* classes; the help marker, a word and a number.
ParseAlphabet(prog) ==
    UNION {UNION {(IF prog[c].fields[i].annotation = "Union"
                     THEN {to_snake(prog[m].name) :
                              m \in Range(prog[c].fields[i].members) \ {0}}
                     ELSE {<<"-", "-">> \o Argument(prog[c].fields[i])})
                    \cup {_to_short(sh) : sh \in Range(prog[c].fields[i].shorts)}
                    \cup (IF prog[c].fields[i].annotation = "bool"
                            THEN {<<"-", "-", "n", "o", "-">> \o Argument(prog[c].fields[i])}
                            ELSE {})
                    : i \in 1..Len(prog[c].fields)} : c \in 1..Len(prog)}
      \cup {HelpKey, <<"x">>, <<"1">>}

\* Only the class given to parse is looked at.
IterRootOnly(prog, c) == IF c = 0 \/ prog[c].base # "BaseModel" THEN {} ELSE {c}

\* iter_over_model: the BaseModel classes in a model (c = 0: int).
RECURSIVE iter_over_model(_, _)
iter_over_model(prog, c) ==
    IF c = 0 \/ prog[c].base # "BaseModel" THEN {}
    ELSE {c} \cup UNION {UNION {iter_over_model(prog, prog[c].fields[i].members[k])
                                   : k \in 1..Len(prog[c].fields[i].members)}
                            : i \in 1..Len(prog[c].fields)}

RECURSIVE Concat(_)
Concat(seqs) == IF seqs = <<>> THEN <<>> ELSE Head(seqs) \o Concat(Tail(seqs))

\* _validate_shorts_in_model raises TooManyShortsException.
TooManyShorts(cls) ==
    LET shorts == Concat([i \in 1..Len(cls.fields) |-> cls.fields[i].shorts])
    IN  Len(shorts) # Cardinality(Range(shorts))

\* validate_model raises.
ValidateModelRaises(prog) == \E c \in iter_over_model(prog, 1) : TooManyShorts(prog[c])

IsBaseModel(prog, c) == c # 0 /\ prog[c].base = "BaseModel"

\* _is_pydantic_subcommand: "yes", "no", or "raise" for InvalidTypesInUnion.
\* Every member is a class; an annotation that is no Union has no members.
_is_pydantic_subcommand(prog, fld) ==
    IF ~\E k \in 1..Len(fld.members) : IsBaseModel(prog, fld.members[k]) THEN "no"
    ELSE IF ~\A k \in 1..Len(fld.members) : IsBaseModel(prog, fld.members[k]) THEN "raise"
    ELSE "yes"

\* ArgsModel.from_pydantic raises InvalidTypesInUnion, at any depth.
RECURSIVE FromPydanticRaises(_, _)
FromPydanticRaises(prog, c) ==
    \E i \in 1..Len(prog[c].fields) :
        \/ _is_pydantic_subcommand(prog, prog[c].fields[i]) = "raise"
        \/ /\ _is_pydantic_subcommand(prog, prog[c].fields[i]) = "yes"
           /\ \E k \in 1..Len(prog[c].fields[i].members) :
                 FromPydanticRaises(prog, prog[c].fields[i].members[k])

\* to_argparse with an optional field added under its bare key, as an
\* argument argparse fills from the next string that is no option.
ToArgparseBareOptionals(prog, c) ==
    [i \in 1..Len(prog[c].fields) |->
        LET fld == prog[c].fields[i]
            Action(action, required, strings, members) ==
                [action |-> action, required |-> required, type |-> fld.annotation,
                 strings |-> strings, members |-> members,
                 names |-> [k \in 1..Len(members) |-> to_snake(prog[members[k]].name)]]
        IN  IF _is_pydantic_subcommand(prog, fld) = "yes"
            THEN Action("parsers", FALSE, <<>>, fld.members)
            ELSE IF fld.annotation = "bool"
            THEN Action("bool", ArgRequired(fld),
                        <<(<<"-", "-">> \o Argument(fld)),
                          <<"-", "-", "n", "o", "-">> \o Argument(fld)>>, <<>>)
            ELSE Action("positional", ArgRequired(fld), <<>>, <<>>)]

\* to_argparse: for a subcommand field the subparsers action with one parser
\* per member, named to_snake of the member's class name; else a positional
\* per required field, `--argument` per optional one, and for a bool the
\* BooleanOptionalAction's `--argument` and `--no-argument`.  The Short
\* annotations are not passed on to argparse.  The other annotations explored
\* are no unions and no collections, so t.is_union and _is_collection_type are
\* both false of them.
ToArgparse(prog, c) ==
    [i \in 1..Len(prog[c].fields) |->
        LET fld == prog[c].fields[i]
            Action(action, required, strings, members) ==
                [action |-> action, required |-> required, type |-> fld.annotation,
                 strings |-> strings, members |-> members,
                 names |-> [k \in 1..Len(members) |-> to_snake(prog[members[k]].name)]]
        IN  IF _is_pydantic_subcommand(prog, fld) = "yes"
            THEN Action("parsers", FALSE, <<>>, fld.members)
            ELSE IF fld.annotation = "bool"
            THEN Action("bool", ArgRequired(fld),
                        <<(<<"-", "-">> \o Argument(fld)),
                          <<"-", "-", "n", "o", "-">> \o Argument(fld)>>, <<>>)
            ELSE IF ArgRequired(fld)
            THEN Action("positional", TRUE, <<>>, <<>>)
            ELSE Action("store", FALSE, <<(<<"-", "-">> \o Argument(fld))>>, <<>>)]

\* _SubParsersAction.add_parser is given a name it already holds, in this
\* parser or in one below it.
RECURSIVE ConflictingSubparser(_, _)
ConflictingSubparser(prog, c) ==
    \E j \in 1..Len(prog[c].fields) :
        LET act == ToArgparse(prog, c)[j]
        IN  /\ act.action = "parsers"
            /\ \/ \E k, l \in 1..Len(act.names) : k # l /\ act.names[k] = act.names[l]
               \/ \E k \in 1..Len(act.members) : ConflictingSubparser(prog, act.members[k])

\* _name_parser_map[name] and _command_type_map[name]: the member added last
\* under the name.
Named(act, name) ==
    LET ks == {k \in 1..Len(act.names) : act.names[k] = name}
    IN  act.members[CHOOSE k \in ks : \A l \in ks : l <= k]

IsPrefix(p, s) == Len(p) <= Len(s) /\ SubSeq(s, 1, Len(p)) = p

\* int(w) raises ValueError.
ConvertFails(type, w) == type = "int" /\ ~IsDigits(w)

NoValue == [has |-> FALSE, val |-> <<>>, flag |-> FALSE]

HelpStrings == {HelpKey, <<"-", "-", "h", "e", "l", "p">>}

\* The option strings of the parser an argument string selects: itself, or
\* the long options it abbreviates.
Selected(parser, w) ==
    LET all == HelpStrings \cup UNION {Range(parser[i].strings) : i \in 1..Len(parser)}
    IN  IF w \in all THEN {w}
        ELSE IF IsPrefix(<<"-", "-">>, w) THEN {o \in all : IsPrefix(w, o)}
        ELSE {}

\* argparse reads the string as an option, not as a value.
OptionLike(parser, w) == StartsWithDash(w) /\ Len(w) > 1 /\ ~IsDigits(Tail(w))

\* Namespace(__clipstick_target=cls) with what was stored for each field of
\* the class; junk: the namespace also holds `_unrecognized_args`.
Level(c, ns, junk) == [cls |-> c, ns |-> ns, junk |-> junk]

\* The parser of class c on args.  top: ArgumentParser.parse_args, which ends
\* in an error if strings are left unrecognized; else the parse_known_args of
\* _SubParsersAction.__call__, which hands them back.  The result is the
\* exit of ArgumentParser.exit (0 for help, 2 for ArgumentParser.error), or
\* ns, what was stored for each field, extras, the strings nothing
\* recognized, and below, the namespaces of the subcommands taken.
\* i: the next string.
RECURSIVE ParseArgsFrom(_, _, _, _, _, _, _)
ParseArgsFrom(prog, c, top, args, i, ns, extras) ==
    LET parser == ToArgparse(prog, c)
        Exit(code) == [exit |-> TRUE, code |-> code, ns |-> ns, extras |-> extras,
                       below |-> <<>>]
        open == {j \in 1..Len(parser) :
                    parser[j].action \in {"positional", "parsers"} /\ ~ns[j].has}
        unmet == {j \in 1..Len(parser) : parser[j].required /\ ~ns[j].has}
    IN  IF i > Len(args)
        THEN IF unmet # {} \/ (top /\ extras # <<>>) THEN Exit(2)
             ELSE [exit |-> FALSE, code |-> 0, ns |-> ns, extras |-> extras, below |-> <<>>]
        ELSE IF OptionLike(parser, args[i])
        THEN LET sel == Selected(parser, args[i])
             IN  IF sel = {}
                 THEN ParseArgsFrom(prog, c, top, args, i + 1, ns, Append(extras, args[i]))
                 ELSE IF Cardinality(sel) > 1 THEN Exit(2)
                 ELSE IF sel \subseteq HelpStrings THEN Exit(0)
                 ELSE LET o == CHOOSE x \in sel : TRUE
                          j == CHOOSE x \in 1..Len(parser) : o \in Range(parser[x].strings)
                      IN  IF parser[j].action = "bool"
                          THEN ParseArgsFrom(prog, c, top, args, i + 1,
                                   [ns EXCEPT ![j] = [has |-> TRUE, val |-> <<>>,
                                        flag |-> ~IsPrefix(<<"-", "-", "n", "o", "-">>, o)]],
                                   extras)
                          ELSE IF i = Len(args) \/ OptionLike(parser, args[i + 1])
                                  \/ ConvertFails(parser[j].type, args[i + 1])
                          THEN Exit(2)
                          ELSE ParseArgsFrom(prog, c, top, args, i + 2,
                                   [ns EXCEPT ![j] = [has |-> TRUE, val |-> args[i + 1],
                                                      flag |-> FALSE]],
                                   extras)
        ELSE IF open = {}
        THEN ParseArgsFrom(prog, c, top, args, i + 1, ns, Append(extras, args[i]))
        ELSE LET j == CHOOSE x \in open : \A y \in open : x <= y
             IN  IF parser[j].action = "parsers"
                 \* The subparsers action takes every string that is left.
                 THEN IF args[i] \notin Range(parser[j].names) THEN Exit(2)
                      ELSE LET m == Named(parser[j], args[i])
                               sub == ParseArgsFrom(prog, m, FALSE,
                                          SubSeq(args, i + 1, Len(args)), 1,
                                          [f \in 1..Len(prog[m].fields) |-> NoValue], <<>>)
                           IN  IF sub.exit THEN Exit(sub.code)
                               ELSE IF unmet # {} \/ (top /\ extras # <<>>) THEN Exit(2)
                               ELSE [exit |-> FALSE, code |-> 0,
                                     ns |-> [ns EXCEPT ![j] = [has |-> TRUE, val |-> args[i],
                                                               flag |-> FALSE]],
                                     extras |-> extras,
                                     below |-> <<Level(m, sub.ns, sub.extras # <<>>)>>
                                                  \o sub.below]
                 ELSE IF ConvertFails(parser[j].type, args[i]) THEN Exit(2)
                 ELSE ParseArgsFrom(prog, c, top, args, i + 1,
                          [ns EXCEPT ![j] = [has |-> TRUE, val |-> args[i], flag |-> FALSE]],
                          extras)

\* arg_parser.parse_args(args, namespace=my_ns)
ParseArgs(prog, args) ==
    ParseArgsFrom(prog, 1, TRUE, args, 1, [f \in 1..Len(prog[1].fields) |-> NoValue], <<>>)

\* cls(**kwargs) raises pydantic's ValidationError: a field without a default
\* is given no value.  A key the class has no field for is ignored, and every
\* value argparse stored has been converted to the field's type.
ConstructorRejects(prog, level) ==
    \E f \in 1..Len(prog[level.cls].fields) :
        ~prog[level.cls].fields[f].has_default /\ ~level.ns[f].has

\* materialize raises: the constructor of some namespace does.
MaterializeRaises(prog, levels) ==
    \E l \in 1..Len(levels) : ConstructorRejects(prog, levels[l])

\* The state of a call of parse: the program, the line it has reached, and
\* how it ended: kind "SystemExit" with code, "Exception" with error (an
\* exception that leaves parse), or "instance" with the namespace built.
Call(prog, stage, kind, code, error, ns, extras) ==
    [prog |-> prog, stage |-> stage, kind |-> kind, code |-> code, error |-> error,
     ns |-> ns, extras |-> extras]

ParseInit ==
    /\ schema = <<>> /\ tokens = <<>> /\ sub_commands = <<>> /\ stack = <<>>
    /\ returns = <<>> /\ outcome = Running /\ built = <<>> /\ first = <<>>
    /\ \E prog \in Programs :
          /\ arguments \in SeqsUpTo(ParseAlphabet(prog), MaxLen)
          /\ cli = Call(prog, "validate", "running", 0, "", <<>>, <<>>)

Ended(kind, code, error) == [cli EXCEPT !.stage = "done", !.kind = kind, !.code = code,
                                        !.error = error]

\* The exit status of `except ClipStickError`.
SchemaErrorStatus == 1

\* The exit status of the `else` of the model's classification.
InvalidModelStatus == 3

\* try: validate_model(model)  except ClipStickError: sys.exit(1)
\* TooManyShortsException is taken to be a ClipStickError, the only exception
\* validate_model raises and the one the except clause is written for.
ValidateModel ==
    /\ cli.stage = "validate"
    /\ cli' = IF ValidateModelRaises(cli.prog)
              THEN Ended("SystemExit", SchemaErrorStatus, "TooManyShortsException")
              ELSE [cli EXCEPT !.stage = "args_model"]
    /\ UNCHANGED <<schema, arguments, tokens, sub_commands, stack, returns, outcome, built, first>>

\* ArgsModel.from_pydantic(model), or sys.exit(3) for a class that is no model.
BuildArgsModel ==
    /\ cli.stage = "args_model"
    /\ cli' = IF cli.prog[1].base # "BaseModel"
              THEN Ended("SystemExit", InvalidModelStatus, "invalid model")
              ELSE IF FromPydanticRaises(cli.prog, 1)
              THEN Ended("Exception", 0, "InvalidTypesInUnion")
              ELSE [cli EXCEPT !.stage = "parse_args"]
    /\ UNCHANGED <<schema, arguments, tokens, sub_commands, stack, returns, outcome, built, first>>

\* arg_parser = to_argparse(args_model); ns = arg_parser.parse_args(args, ...)
\* conflicts: add_parser raises ArgumentError for a name it holds already, as
\* it does from Python 3.11 on; before, the later parser replaces the earlier.
RunArgparse ==
    /\ cli.stage = "parse_args"
    /\ \E conflicts \in BOOLEAN :
          LET r == ParseArgs(cli.prog, arguments)
          IN  cli' = IF conflicts /\ ConflictingSubparser(cli.prog, 1)
                     THEN Ended("Exception", 0, "ArgumentError")
                     ELSE IF r.exit
                     THEN [Ended("SystemExit", r.code, "") EXCEPT !.extras = r.extras]
                     ELSE [cli EXCEPT !.stage = "materialize",
                                      !.ns = <<Level(1, r.ns, FALSE)>> \o r.below]
    /\ UNCHANGED <<schema, arguments, tokens, sub_commands, stack, returns, outcome, built, first>>

\* return materialize(ns)
Materialize ==
    /\ cli.stage = "materialize"
    /\ cli' = IF MaterializeRaises(cli.prog, cli.ns)
              THEN Ended("Exception", 0, "ValidationError")
              ELSE Ended("instance", 0, "")
    /\ UNCHANGED <<schema, arguments, tokens, sub_commands, stack, returns, outcome, built, first>>

ParseNext == ValidateModel \/ BuildArgsModel \/ RunArgparse \/ Materialize

ParseSpec == ParseInit /\ [][ParseNext]_vars

\* parse(model, args) of the models whose fields differ in their defaults.
DefaultsInit ==
    /\ schema = <<>> /\ tokens = <<>> /\ sub_commands = <<>> /\ stack = <<>>
    /\ returns = <<>> /\ outcome = Running /\ built = <<>> /\ first = <<>>
    /\ \E prog \in DefaultsPrograms :
          /\ arguments \in SeqsUpTo(ParseAlphabet(prog), MaxLen)
          /\ cli = Call(prog, "validate", "running", 0, "", <<>>, <<>>)

DefaultsSpec == DefaultsInit /\ [][ParseNext]_vars

(***************************************************************************)
(* smplcli.tokens: the sequential matcher.  parse(model, args) builds the  *)
(* tree with tokenize, puts "__main_entry__" before the input, calls match *)
(* on the root from 0 and then parse on the root.  A tree is a schema as   *)
(* above; indices are slices <<start, stop>>, or NoIndices for None.       *)
(***************************************************************************)
MaxSmplLen == 4

MainEntry == <<"_", "_", "m", "a", "i", "n", "_", "e", "n", "t", "r", "y", "_", "_">>

NoIndices == <<>>

\* values[indices]: a slice is cut at the end of the list.
SliceOf(values, indices) ==
    SubSeq(values, indices[1] + 1,
           IF indices[2] < Len(values) THEN indices[2] ELSE Len(values))

\* Subcommand.sub_command_name: "__main_entry__" for the root, the name of
\* the class for a variant.
SubCommandName(nodes, n) == IF n = 1 THEN MainEntry ELSE nodes[n].cls

\* f"--{self.key}"
SmplKey(tok) == <<"-", "-">> \o tok.field

\* tokenize: a field that is required becomes a PositionalArg.
SmplPositional(tok) == Required(tok)

\* a: str; o: str = ...
PosFirst ==
    <<Node(MainField, <<"M">>,
           <<Tok("PositionalArg", <<"a">>, NoShorts, FALSE),
             Tok("OptionalKeyArgs", <<"o">>, NoShorts, FALSE)>>,
           <<>>)>>

\* o: str = ...; a: str; b: str
OptFirst ==
    <<Node(MainField, <<"M">>,
           <<Tok("OptionalKeyArgs", <<"o">>, NoShorts, FALSE),
             Tok("PositionalArg", <<"a">>, NoShorts, FALSE),
             Tok("PositionalArg", <<"b">>, NoShorts, FALSE)>>,
           <<>>)>>

\* a: str; v_1: str = ...
Underscored ==
    <<Node(MainField, <<"M">>,
           <<Tok("PositionalArg", <<"a">>, NoShorts, FALSE),
             Tok("OptionalKeyArgs", <<"v", "_", "1">>, NoShorts, FALSE)>>,
           <<>>)>>

\* The schemas without a subcommand group.
SmplFlat == {PosFirst, OptFirst, Underscored}

SmplSchemas == SmplFlat \cup {UnionModel, NestedLastModel}

\* The words the inputs are drawn from: the option keys as either
\* implementation spells them, the class names, the help marker, two plain
\* values and a value with one dash.
SmplAlphabet(nodes) ==
    UNION {UNION {IF SmplPositional(nodes[n].tokens[i]) THEN {}
                  ELSE {SmplKey(nodes[n].tokens[i]), _to_key(nodes[n].tokens[i].field)}
                    : i \in 1..Len(nodes[n].tokens)}
              : n \in 1..Len(nodes)}
      \cup {nodes[n].cls : n \in 2..Len(nodes)}
      \cup {HelpKey, <<"-", "x">>} \cup PlainValues

\* A tree as tokenize leaves it: no indices, every variant in sub_commands.
\* help: the indices of the node's HelpArg; args: of its other tokens; ret:
\* what the node's match returned last.
SmplTree(nodes) ==
    [n \in 1..Len(nodes) |->
        [indices |-> NoIndices, help |-> NoIndices,
         args |-> [i \in 1..Len(nodes[n].tokens) |-> NoIndices],
         sub_commands |-> nodes[n].sub_commands,
         ret |-> NotReturned]]

\* (success, idx) of a token's match and the token's indices after it.
SmplResult(ok, idx, indices) == [ok |-> ok, idx |-> idx, indices |-> indices]

\* An option consumes its key only.
SmplOptionalArgMatchKeyOnly(tok, indices, idx, values) ==
    IF ~InRange(values, idx) \/ At(values, idx) # SmplKey(tok)
    THEN SmplResult(TRUE, idx, indices)
    ELSE SmplResult(TRUE, idx + 1, <<idx, idx + 1>>)

\* smplcli PositionalArg.match
SmplPositionalArgMatch(tok, indices, idx, values) ==
    IF ~InRange(values, idx) THEN SmplResult(FALSE, idx, indices)
    ELSE IF IsPrefix(<<"-", "-">>, At(values, idx)) THEN SmplResult(FALSE, idx, indices)
    ELSE SmplResult(TRUE, idx + 1, <<idx, idx + 1>>)

\* smplcli OptionalArg.match
SmplOptionalArgMatch(tok, indices, idx, values) ==
    IF ~InRange(values, idx) \/ At(values, idx) # SmplKey(tok)
    THEN SmplResult(TRUE, idx, indices)
    ELSE SmplResult(TRUE, idx + 2, <<idx, idx + 2>>)

\* HelpArg.match
HelpArgMatch(indices, idx, values) ==
    IF ~InRange(values, idx) \/ At(values, idx) # HelpKey
    THEN SmplResult(TRUE, idx, indices)
    ELSE SmplResult(TRUE, idx + Len(values), <<idx, Len(values)>>)

\* `for arg in self.args` from arg i on (arg 0 is the HelpArg tokenize puts
\* first): the first arg whose match fails ends the loop.
RECURSIVE SmplArgsFrom(_, _, _, _, _, _)
SmplArgsFrom(nodes, st, n, i, idx, values) ==
    IF i > Len(nodes[n].tokens) THEN [ok |-> TRUE, idx |-> idx, st |-> st]
    ELSE LET tok == nodes[n].tokens[i]
             r == IF i = 0 THEN HelpArgMatch(st[n].help, idx, values)
                  ELSE IF SmplPositional(tok)
                       THEN SmplPositionalArgMatch(tok, st[n].args[i], idx, values)
                  ELSE SmplOptionalArgMatch(tok, st[n].args[i], idx, values)
             after == IF i = 0 THEN [st EXCEPT ![n].help = r.indices]
                      ELSE [st EXCEPT ![n].args[i] = r.indices]
         IN  IF ~r.ok THEN [ok |-> FALSE, idx |-> r.idx, st |-> after]
             ELSE SmplArgsFrom(nodes, after, n, i + 1, r.idx, values)

\* `return success, idx` of node n's match; raised: ValueError left it.
SmplReturn(st, n, entry, success, idx) ==
    [ok |-> success, idx |-> idx, raised |-> FALSE,
     st |-> [st EXCEPT ![n].ret =
                [done |-> TRUE, success |-> success, idx |-> idx, entry |-> entry]]]

\* `idx + succesfull_subcommands[0][1]`
SmplCursorAfterVariant(idx, variant_idx) == idx + variant_idx

\* smplcli Subcommand.match, and its loop over self.sub_commands from
\* variant k on, every variant from the same cursor.
RECURSIVE SmplSubcommandMatch(_, _, _, _, _)
RECURSIVE SmplVariantsFrom(_, _, _, _, _, _)
SmplVariantsFrom(nodes, st, n, k, idx, values) ==
    IF k > Len(st[n].sub_commands)
    THEN [st |-> st, subcommands |-> <<>>, raised |-> FALSE]
    ELSE LET sub_command == st[n].sub_commands[k]
             result == SmplSubcommandMatch(nodes, st, sub_command, idx, values)
             rest == SmplVariantsFrom(nodes, result.st, n, k + 1, idx, values)
         IN  IF result.raised
             THEN [st |-> result.st, subcommands |-> <<>>, raised |-> TRUE]
             ELSE [st |-> rest.st, raised |-> rest.raised,
                   subcommands |->
                       <<[ok |-> result.ok, idx |-> result.idx, node |-> sub_command]>>
                           \o rest.subcommands]

SmplSubcommandMatch(nodes, st, n, idx, values) ==
    IF ~InRange(values, idx) \/ At(values, idx) # SubCommandName(nodes, n)
    THEN SmplReturn(st, n, idx, FALSE, idx)
    ELSE LET named == [st EXCEPT ![n].indices = <<idx, idx + 1>>]
             a == SmplArgsFrom(nodes, named, n, 0, idx + 1, values)
         IN  IF ~a.ok THEN SmplReturn(a.st, n, idx, FALSE, idx)
             ELSE IF Len(a.st[n].sub_commands) = 0 THEN SmplReturn(a.st, n, idx, TRUE, a.idx)
             ELSE LET v == SmplVariantsFrom(nodes, a.st, n, 1, a.idx, values)
                      succesfull == SelectSeq(v.subcommands, LAMBDA s : s.ok)
                  IN  IF v.raised \/ Len(succesfull) > 1
                      THEN [ok |-> FALSE, idx |-> idx, raised |-> TRUE, st |-> v.st]
                      ELSE IF Len(succesfull) = 0
                      THEN SmplReturn(v.st, n, idx, FALSE, idx)
                      ELSE SmplReturn([v.st EXCEPT ![n].sub_commands = <<succesfull[1].node>>],
                                      n, idx, TRUE,
                                      SmplCursorAfterVariant(a.idx, succesfull[1].idx))

\* parse() of token i of node n: what it raises, or the dict it returns
\* (has: the key is there).  PositionalArg.parse subscripts with None when
\* the token never matched; OptionalArg.parse takes the last of its slice.
SmplTokenParse(tok, indices, values) ==
    IF SmplPositional(tok)
    THEN IF indices = NoIndices THEN [raises |-> "TypeError", has |-> FALSE, val |-> <<>>]
         ELSE IF SliceOf(values, indices) = <<>>
              THEN [raises |-> "IndexError", has |-> FALSE, val |-> <<>>]
         ELSE [raises |-> "", has |-> TRUE, val |-> SliceOf(values, indices)[1]]
    ELSE IF indices = NoIndices THEN [raises |-> "", has |-> FALSE, val |-> <<>>]
         ELSE IF SliceOf(values, indices) = <<>>
              THEN [raises |-> "IndexError", has |-> FALSE, val |-> <<>>]
         ELSE [raises |-> "", has |-> TRUE,
               val |-> SliceOf(values, indices)[Len(SliceOf(values, indices))]]

\* The dict of node n's tokens, as far as their parse() returns.
SmplMapping(nodes, st, n, values) ==
    [i \in 1..Len(nodes[n].tokens) |->
        LET p == SmplTokenParse(nodes[n].tokens[i], st[n].args[i], values)
        IN  [has |-> p.has, val |-> p.val, flag |-> FALSE, items |-> <<>>]]

\* How parse of a node ended, and at which node.
SmplEnded(kind, node) == [kind |-> kind, node |-> node]

\* smplcli Subcommand.parse: the args in order (HelpArg.parse exits when the
\* marker was matched), the assertion, parse of the variants kept, then the
\* constructor of the node's class.
RECURSIVE SmplSubcommandParse(_, _, _, _)
SmplSubcommandParse(nodes, st, n, values) ==
    LET toks == nodes[n].tokens
        raising == {i \in 1..Len(toks) :
                       SmplTokenParse(toks[i], st[n].args[i], values).raises # ""}
        i0 == CHOOSE i \in raising : \A j \in raising : i <= j
        subs == st[n].sub_commands
        below == SmplSubcommandParse(nodes, st, subs[1], values)
    IN  IF st[n].help # NoIndices THEN SmplEnded("SystemExit", n)
        ELSE IF raising # {}
             THEN SmplEnded(SmplTokenParse(toks[i0], st[n].args[i0], values).raises, n)
        ELSE IF Len(subs) > 1 THEN SmplEnded("AssertionError", n)
        ELSE IF Len(subs) = 1 /\ below.kind # "instance" THEN below
        ELSE IF ModelValidateRaises(toks, SmplMapping(nodes, st, n, values))
             THEN SmplEnded("ValidationError", n)
        ELSE SmplEnded("instance", n)

\* One call of smplcli parse(model, args), after tokenize.
SmplInit ==
    /\ schema \in SmplSchemas
    /\ arguments \in SeqsUpTo(SmplAlphabet(schema), MaxSmplLen)
    /\ cli = [stage |-> "tokenized", tree |-> SmplTree(schema),
              success |-> FALSE, idx |-> 0, parsed |-> SmplEnded("", 0)]
    /\ tokens = <<>> /\ sub_commands = <<>> /\ stack = <<>> /\ returns = <<>>
    /\ outcome = Running /\ built = <<>> /\ first = NoFirst

\* args = ["__main_entry__"] + args
SmplValues == <<MainEntry>> \o arguments

\* root_node.match(0, args): its result is dropped by parse, kept here.
SmplMatch ==
    /\ cli.stage = "tokenized"
    /\ LET r == SmplSubcommandMatch(schema, cli.tree, 1, 0, SmplValues)
       IN  cli' = IF r.raised
                  THEN [cli EXCEPT !.stage = "ended", !.tree = r.st,
                                   !.parsed = SmplEnded("ValueError", 0)]
                  ELSE [cli EXCEPT !.stage = "matched", !.tree = r.st,
                                   !.success = r.ok, !.idx = r.idx]
    /\ UNCHANGED <<schema, arguments, tokens, sub_commands, stack, returns, outcome, built,
                   first>>

\* parsed = root_node.parse(args), whatever match returned.
SmplParse ==
    /\ cli.stage = "matched"
    /\ cli' = [cli EXCEPT !.stage = "ended",
                          !.parsed = SmplSubcommandParse(schema, cli.tree, 1, SmplValues)]
    /\ UNCHANGED <<schema, arguments, tokens, sub_commands, stack, returns, outcome, built,
                   first>>

SmplNext == SmplMatch \/ SmplParse

SmplSpec == SmplInit /\ [][SmplNext]_vars

(***************************************************************************)
(* Properties of Command.match                                             *)
(***************************************************************************)
Nodes == 1..Len(schema)

Succeeded(n) == returns[n].done /\ returns[n].success

\* Variant names are unique within every subcommand group of the schema.
UniqueNames ==
    \A n \in Nodes : \A i, j \in 1..Len(schema[n].sub_commands) :
        i # j => SubcommandUserKeys(schema[schema[n].sub_commands[i]])
                    # SubcommandUserKeys(schema[schema[n].sub_commands[j]])

\* The nodes of the branch sub_commands leaves below n, n included.
RECURSIVE Branch(_)
Branch(n) ==
    {n} \cup (IF Len(sub_commands[n]) = 1 THEN Branch(sub_commands[n][1]) ELSE {})

\* C1: after a node's match returned success, every node of the branch below
\* it that declares a subcommand group keeps exactly one variant in
\* sub_commands, a declared variant whose own match returned success, and
\* every node that declares no group keeps none.
C1_OneBranch ==
    \A n \in Nodes : Succeeded(n) =>
        \A m \in Branch(n) :
            IF schema[m].sub_commands = <<>>
            THEN sub_commands[m] = <<>>
            ELSE /\ Len(sub_commands[m]) = 1
                 /\ sub_commands[m][1] \in Range(schema[m].sub_commands)
                 /\ Succeeded(sub_commands[m][1])

C1_Witness ==
    /\ schema = GitModel
    /\ outcome.kind = "returned" /\ outcome.success
    /\ sub_commands[1] = <<2>> /\ sub_commands[2] = <<4>>

\* C2: with variant names unique within each group, match never raises the
\* "more than one solution-tree is found" ValueError.
C2_NeverAmbiguous == UniqueNames => outcome.kind # "ValueError"

\* Token i of node n captures in this step.
Captures(n, i) == ~tokens[n][i].has /\ tokens'[n][i].has

\* C3 as stated: a required token of any kind captures only after every
\* required token declared before it has captured.
C3_RequiredInOrder ==
    [][\A n \in Nodes : \A i, j \in 1..Len(schema[n].tokens) :
          (/\ j < i
           /\ Required(schema[n].tokens[i]) /\ Required(schema[n].tokens[j])
           /\ Captures(n, i)) => tokens[n][j].has]_vars

\* C3 amended: a positional token (PositionalArg, Choice) captures only after
\* every positional token declared before it has captured.
C3_PositionalsInOrder ==
    [][\A n \in Nodes : \A i, j \in 1..Len(schema[n].tokens) :
          (/\ j < i
           /\ schema[n].tokens[i].kind \in PositionalKinds
           /\ schema[n].tokens[j].kind \in PositionalKinds
           /\ Captures(n, i)) => tokens[n][j].has]_vars

C3_Witness ==
    /\ schema = FlatModel
    /\ tokens[1][1].has /\ tokens[1][3].has /\ tokens[1][2].has
    /\ tokens[1][1].val = <<"x">> /\ tokens[1][3].val = <<"y">>

\* The tokens of toks, other than positionals, that recognize word w.
Owners(toks, w) ==
    {i \in 1..Len(toks) : toks[i].kind \notin PositionalKinds /\ w \in Range(user_keys(toks[i]))}

\* The input cut into groups: a key with its value, a flag, or a lone value.
\* tok: the token the group's spelling belongs to (0: a positional value).
RECURSIVE GroupsFrom(_, _, _)
GroupsFrom(toks, values, i) ==
    IF i > Len(values) THEN <<>>
    ELSE IF Owners(toks, values[i]) = {}
         THEN <<[words |-> <<values[i]>>, tok |-> 0]>> \o GroupsFrom(toks, values, i + 1)
    ELSE LET t == CHOOSE o \in Owners(toks, values[i]) : \A q \in Owners(toks, values[i]) : o <= q
         IN  IF toks[t].kind \in FlagKinds \/ i = Len(values)
             THEN <<[words |-> <<values[i]>>, tok |-> t]>> \o GroupsFrom(toks, values, i + 1)
             ELSE <<[words |-> <<values[i], values[i + 1]>>, tok |-> t]>>
                      \o GroupsFrom(toks, values, i + 2)

Movable(toks, g) == g.tok # 0 /\ ~Required(toks[g.tok])

RECURSIVE Flatten(_)
Flatten(groups) ==
    IF groups = <<>> THEN <<>> ELSE Head(groups).words \o Flatten(Tail(groups))

\* Every order of the groups that keeps the groups that are not optional in
\* their relative order.
Rearrangements(toks, groups) ==
    LET n == Len(groups)
        perms == {p \in [1..n -> 1..n] :
                    /\ \A i, j \in 1..n : i # j => p[i] # p[j]
                    /\ \A i, j \in 1..n :
                          (i < j /\ ~Movable(toks, groups[p[i]]) /\ ~Movable(toks, groups[p[j]]))
                              => p[i] < p[j]}
    IN  {Flatten([i \in 1..n |-> groups[p[i]]]) : p \in perms}

\* The match of the flat schema returned success at the end of the input, and
\* no value begins with "-" or is a spelling of the schema.
AcceptedFlat ==
    /\ schema[1].sub_commands = <<>>
    /\ outcome.kind = "returned" /\ outcome.success /\ outcome.idx = Len(arguments)
    /\ \A g \in Range(GroupsFrom(schema[1].tokens, arguments, 1)) :
          LET value == g.words[Len(g.words)]
          IN  (g.tok = 0 \/ Len(g.words) = 2) =>
                  ~StartsWithDash(value) /\ Owners(schema[1].tokens, value) = {}

\* No optional keyed value or optional collection is given twice.
GivenOnce ==
    LET groups == GroupsFrom(schema[1].tokens, arguments, 1)
    IN  \A i, j \in 1..Len(groups) :
            (i # j /\ Len(groups[i].words) = 2 /\ Movable(schema[1].tokens, groups[i]))
                => groups[i].tok # groups[j].tok

SameAsRearranged ==
    \A again \in Rearrangements(schema[1].tokens, GroupsFrom(schema[1].tokens, arguments, 1)) :
        LET r == MatchFlat(schema[1].tokens, again)
        IN  /\ r.kind = "returned"
            /\ r.idx = Len(again)
            /\ Mapping(r.sts) = Mapping(tokens[1])

\* C4 as stated: every rearrangement of the optional groups of an accepted
\* input of a flat schema is accepted with the same captures, at the end of
\* the input.
C4_AnyOrder == AcceptedFlat => SameAsRearranged

\* C4 amended: the same, for inputs that give no optional keyed value or
\* optional collection more than once.
C4_AnyOrderGivenOnce == (AcceptedFlat /\ GivenOnce) => SameAsRearranged

\* Two positional values with a key and its value between them.
C4_Witness ==
    /\ schema = FlatModel
    /\ AcceptedFlat /\ GivenOnce
    /\ arguments = <<(<<"x">>), <<"-", "v">>, <<"y">>, <<"y">>>>
    /\ <<(<<"-", "v">>), <<"y">>, <<"x">>, <<"y">>>>
           \in Rearrangements(schema[1].tokens, GroupsFrom(schema[1].tokens, arguments, 1))

\* The stepwise match and MatchFlat agree on flat schemas.
MatchFlatAgrees ==
    (schema[1].sub_commands = <<>> /\ outcome.kind # "running") =>
        LET r == MatchFlat(schema[1].tokens, arguments)
        IN  r.kind = outcome.kind /\ r.idx = outcome.idx /\ r.sts = tokens[1]

\* C5: whenever a node's match returned success, every required token of the
\* node and of every node of its committed branch holds a capture.
C5_RequiredCaptured ==
    \A n \in Nodes : Succeeded(n) =>
        \A m \in Branch(n) : \A i \in 1..Len(schema[m].tokens) :
            Required(schema[m].tokens[i]) => tokens[m][i].has

C5_Witness ==
    /\ schema = RequiredModel
    /\ outcome.kind = "returned" /\ outcome.success
    /\ tokens[1][2].has /\ ~tokens[1][2].flag

\* The first token of node n, in declaration order, that is required and
\* holds no capture (0: none).
FirstUncaptured(n) ==
    LET open == {i \in 1..Len(schema[n].tokens) :
                    schema[n].tokens[i].kind \in
                        {"PositionalArg", "Choice", "Collection", "BooleanFlag"}
                    /\ ~tokens[n][i].has}
    IN  IF open = {} THEN 0 ELSE CHOOSE i \in open : \A j \in open : i <= j

C7_HelpAtEntry ==
    [][(/\ outcome.kind = "running" /\ stack # <<>> /\ Top.pc = "enter"
        /\ Top.idx < Len(arguments) /\ arguments[Top.idx + 1] = <<"-", "h">>)
       => /\ outcome' = Outcome("SystemExit", FALSE, Top.idx, <<>>, 0, Top.node)
          /\ stack' = <<>>
          /\ returns' = returns /\ tokens' = tokens /\ sub_commands' = sub_commands]_vars

\* Help of a variant that declares a required token, with a token after it.
C7_Witness ==
    /\ schema = GitModel
    /\ outcome.kind = "SystemExit" /\ outcome.code = 0 /\ outcome.node = 5
    /\ Len(arguments) = 3 /\ arguments[3] = <<"x">>

\* C9: a match ends in a return, in MissingPositional or in the help exit,
\* never in another exception.
C9_Total ==
    UniqueNames => outcome.kind \in {"running", "returned", "MissingPositional", "SystemExit"}

\* The tokens that hold a capture, as <<node, position>>.
Captured ==
    UNION {{<<n, i>> : i \in {j \in 1..Len(tokens[n]) : tokens[n][j].has}} : n \in Nodes}

\* The match of MyGitModel on `input` has ended.
GitEnded(input) == schema = GitModel /\ arguments = input /\ outcome.kind # "running"

\* The match returned success with the whole input consumed, and parse, as
\* far as it has come, did not fail.
ConsumedAll ==
    /\ outcome = Outcome("returned", TRUE, Len(arguments), <<>>, 0, 1)
    /\ built.result \in {"none", "parsing", "instance"}

\* C13: for MyGitModel (Rm | Mg at the root, Cl | In below Rm) the names in
\* the input select the committed path and the value after a name is
\* captured by that name's node only: ['mg','x'] commits Mg with b = 'x';
\* ['rm','in'] commits Rm then In and captures nothing; ['rm','in','--no-v']
\* captures v = false in In; ['rm','cl','1'] commits Cl with d = '1'; each
\* time the whole input is consumed.
C13_NamesSelectPath ==
    /\ GitEnded(<<(<<"m", "g">>), <<"x">>>>) =>
          /\ ConsumedAll /\ sub_commands[1] = <<5>>
          /\ Captured = {<<5, 1>>} /\ tokens[5][1].val = <<"x">>
    /\ GitEnded(<<(<<"r", "m">>), <<"i", "n">>>>) =>
          /\ ConsumedAll /\ sub_commands[1] = <<2>> /\ sub_commands[2] = <<4>>
          /\ Captured = {}
    /\ GitEnded(<<(<<"r", "m">>), <<"i", "n">>, <<"-", "-", "n", "o", "-", "v">>>>) =>
          /\ ConsumedAll /\ sub_commands[1] = <<2>> /\ sub_commands[2] = <<4>>
          /\ Captured = {<<4, 1>>} /\ tokens[4][1].flag = FALSE
    /\ GitEnded(<<(<<"r", "m">>), <<"c", "l">>, <<"1">>>>) =>
          /\ ConsumedAll /\ sub_commands[1] = <<2>> /\ sub_commands[2] = <<3>>
          /\ Captured = {<<3, 1>>} /\ tokens[3][1].val = <<"1">>

\* The deepest path, with its instance built.
C13_Witness ==
    /\ GitEnded(<<(<<"r", "m">>), <<"c", "l">>, <<"1">>>>)
    /\ built.result = "instance"
    /\ built.nodes[1].sub = 2 /\ built.nodes[2].sub = 3 /\ built.nodes[3].match[1].val = <<"1">>

\* The affirmative and the negated spellings of a flag's field and shorts.
Affirmative(tok) ==
    {<<"-", "-">> \o Dashed(tok.field)} \cup {<<"-">> \o sh : sh \in Range(tok.shorts)}

Negated(tok) ==
    {<<"-", "-", "n", "o", "-">> \o Dashed(tok.field)}
        \cup {<<"-", "n", "o", "-">> \o sh : sh \in Range(tok.shorts)}

\* A match call that reports no match keeps the cursor and the token's state.
NoMatch(r, st, idx) == ~r.ok /\ ~r.raised /\ r.idx = idx /\ r.st = st

\* C14: in every state and at every cursor, an optional boolean flag matches
\* exactly when the word at the cursor is an affirmative spelling (default
\* false) or a negated spelling (default true); a match advances the cursor
\* by one and captures the negation of the default; any other word, the
\* spelling that confirms the default included, is no match and is not
\* consumed; and every capture such a flag holds is the negation of its
\* default.
C14_ContradictingSpellingOnly ==
    \A n \in Nodes : \A i \in 1..Len(schema[n].tokens) :
        LET tok == schema[n].tokens[i]
            valid == IF tok.default = FALSE THEN Affirmative(tok) ELSE Negated(tok)
        IN  tok.kind = "OptionalBooleanFlag" =>
              /\ tokens[n][i].has => tokens[n][i].flag = ~tok.default
              /\ \A idx \in 0..Len(arguments) :
                    LET r == TokenMatch(tok, tokens[n][i], idx, arguments)
                    IN  IF idx < Len(arguments) /\ arguments[idx + 1] \in valid
                        THEN /\ r.ok /\ ~r.raised /\ r.idx = idx + 1
                             /\ r.st.has /\ r.st.flag = ~tok.default
                        ELSE NoMatch(r, tokens[n][i], idx)

\* A flag of default true takes its negated short and leaves `--t`.
C14_Witness ==
    /\ schema = OptionalModel
    /\ arguments = <<(<<"-", "n", "o", "-", "t">>), <<"-", "-", "t">>>>
    /\ outcome.kind = "returned" /\ outcome.idx = 1
    /\ tokens[1][3].has /\ tokens[1][3].flag = FALSE

\* C15: in every state and at every cursor, a required boolean flag matches
\* exactly when the word at the cursor is one of its affirmative or negated
\* spellings, long or short; a match advances the cursor by one and captures
\* true for an affirmative and false for a negated spelling; and a flag that
\* holds a capture, false included, is not among the tokens the completeness
\* check finds missing.
C15_BothSpellingSets ==
    \A n \in Nodes : \A i \in 1..Len(schema[n].tokens) :
        LET tok == schema[n].tokens[i]
        IN  tok.kind = "BooleanFlag" =>
              /\ tokens[n][i].has => i \notin Range(NonMatchingRequired(schema[n].tokens, tokens[n]))
              /\ \A idx \in 0..Len(arguments) :
                    LET r == TokenMatch(tok, tokens[n][i], idx, arguments)
                    IN  IF idx < Len(arguments)
                           /\ arguments[idx + 1] \in Affirmative(tok) \cup Negated(tok)
                        THEN /\ r.ok /\ ~r.raised /\ r.idx = idx + 1
                             /\ r.st.has
                             /\ r.st.flag = (arguments[idx + 1] \in Affirmative(tok))
                        ELSE NoMatch(r, tokens[n][i], idx)

\* The negated short is given, and the match succeeds with false captured.
C15_Witness ==
    /\ schema = RequiredModel
    /\ arguments = <<(<<"x">>), <<"-", "n", "o", "-", "f">>, <<"-", "-", "c">>, <<"y">>>>
    /\ outcome.kind = "returned" /\ outcome.success /\ outcome.idx = 4
    /\ tokens[1][2].has /\ tokens[1][2].flag = FALSE

\* C16: at every cursor that holds a spelling of an optional keyed token the
\* token's match succeeds, advances the cursor by two and captures the word
\* after the spelling; at every other cursor it is no match.
C16_KeyedTakesTwo ==
    \A n \in Nodes : \A i \in 1..Len(schema[n].tokens) :
        LET tok == schema[n].tokens[i]
            spellings == {<<"-", "-">> \o Dashed(tok.field)}
                            \cup {<<"-">> \o sh : sh \in Range(tok.shorts)}
        IN  tok.kind \in {"OptionalKeyArgs", "OptionalChoice"} =>
              \A idx \in 0..Len(arguments) :
                  LET r == TokenMatch(tok, tokens[n][i], idx, arguments)
                  IN  IF idx < Len(arguments) /\ arguments[idx + 1] \in spellings
                      THEN /\ r.ok /\ ~r.raised /\ r.idx = idx + 2
                           /\ r.st.has /\ r.st.val = arguments[idx + 2]
                      ELSE NoMatch(r, tokens[n][i], idx)

\* C17: in every state and at every cursor inside the input, a positional
\* token matches exactly when the word at the cursor does not begin with "-"
\* and the token holds no capture; a match captures the word and advances
\* the cursor by one, and no match changes nothing.  The scan never offers a
\* cursor beyond the end of the input.
C17_PositionalMatch ==
    /\ (outcome.kind = "running" /\ stack # <<>>) => Top.idx <= Len(arguments)
    /\ \A n \in Nodes : \A i \in 1..Len(schema[n].tokens) :
          LET tok == schema[n].tokens[i]
          IN  tok.kind \in {"PositionalArg", "Choice"} =>
                \A idx \in 0..(Len(arguments) - 1) :
                    LET r == TokenMatch(tok, tokens[n][i], idx, arguments)
                    IN  IF arguments[idx + 1][1] # "-" /\ ~tokens[n][i].has
                        THEN /\ r.ok /\ ~r.raised /\ r.idx = idx + 1
                             /\ r.st.has /\ r.st.val = arguments[idx + 1]
                        ELSE NoMatch(r, tokens[n][i], idx)

\* Both positionals hold a capture and a third word is left unconsumed.
C17_Witness ==
    /\ schema = FlatModel
    /\ arguments = <<(<<"x">>), <<"y">>, <<"x">>>>
    /\ outcome.kind = "returned" /\ outcome.idx = 2
    /\ tokens[1][1].val = <<"x">> /\ tokens[1][3].val = <<"y">>

\* The values given to token i among the groups, in input order.
ValuesOf(groups, i) ==
    LET own == SelectSeq(groups, LAMBDA g : g.tok = i /\ Len(g.words) = 2)
    IN  [k \in 1..Len(own) |-> own[k].words[2]]

OnlyOptionals ==
    \A n \in Nodes :
        /\ schema[n].sub_commands = <<>>
        /\ \A i \in 1..Len(schema[n].tokens) :
              schema[n].tokens[i].kind \in
                  {"OptionalKeyArgs", "OptionalChoice", "OptionalCollection",
                   "OptionalBooleanFlag"}

\* C19: the mapping Command.parse hands to the constructor has no key for an
\* optional token none of whose spellings is in the input; and for a schema
\* of optional tokens only and the empty input the match succeeds, parse
\* does not fail, and the instance is built from the empty mapping.
C19_DefaultsWithoutKey ==
    /\ \A n \in Nodes : \A i \in 1..Len(schema[n].tokens) :
          LET tok == schema[n].tokens[i]
              spellings == IF tok.kind = "OptionalBooleanFlag"
                           THEN Affirmative(tok) \cup Negated(tok)
                           ELSE Affirmative(tok)
          IN  (/\ tok.kind \in {"OptionalKeyArgs", "OptionalChoice", "OptionalCollection",
                                 "OptionalBooleanFlag"}
               /\ built.nodes[n].parsed
               /\ spellings \cap Range(arguments) = {})
                  => ~built.nodes[n].match[i].has
    /\ (OnlyOptionals /\ arguments = <<>> /\ outcome.kind # "running") =>
          /\ outcome = Outcome("returned", TRUE, 0, <<>>, 0, 1)
          /\ built.result \in {"none", "parsing", "instance"}
          /\ built.nodes[1].parsed =>
                \A i \in 1..Len(schema[1].tokens) : ~built.nodes[1].match[i].has

\* The all-defaults instance of the schema of three optional tokens.
C19_Witness ==
    /\ schema = OptionalModel /\ arguments = <<>>
    /\ built.result = "instance" /\ built.nodes[1].instance
    /\ \A i \in 1..3 : ~built.nodes[1].match[i].has

(***************************************************************************)
(* Properties of parse                                                     *)
(***************************************************************************)
\* The program passes validate_model and ArgsModel.from_pydantic.
WellFormed(prog) ==
    /\ prog[1].base = "BaseModel"
    /\ ~ValidateModelRaises(prog)
    /\ ~FromPydanticRaises(prog, 1)

Positionals(cls) ==
    SelectSeq([i \in 1..Len(cls.fields) |-> i],
              LAMBDA i : ~cls.fields[i].has_default /\ cls.fields[i].annotation # "bool")

\* The input is plain values only, one for every positional field, each of
\* the field's type, and at least one more.
TooManyValues ==
    LET pos == Positionals(cli.prog[1])
    IN  /\ WellFormed(cli.prog)
        /\ \A i \in 1..Len(cli.prog[1].fields) :
              cli.prog[1].fields[i].annotation = "bool" => cli.prog[1].fields[i].has_default
        /\ Len(arguments) > Len(pos)
        /\ \A i \in 1..Len(arguments) : ~StartsWithDash(arguments[i])
        /\ \A k \in 1..Len(pos) :
              cli.prog[1].fields[pos[k]].annotation = "int" => IsDigits(arguments[k])

\* C8: parse of an input that leaves tokens unconsumed ends with exit status
\* 1 and returns no instance.
C8_LeftoverExitsOne ==
    (cli.stage = "done" /\ TooManyValues) => (cli.kind = "SystemExit" /\ cli.code = 1)

\* Some class of the program gives one short alias twice.
DuplicateShort(prog) ==
    \E c \in 1..Len(prog) : \E i, j \in 1..Len(prog[c].fields) :
        /\ i # j
        /\ Range(prog[c].fields[i].shorts) \cap Range(prog[c].fields[j].shorts) # {}

\* Some subcommand union of the program mixes models and other classes.
MixedMembers(prog) ==
    \E c \in 1..Len(prog) : \E i \in 1..Len(prog[c].fields) :
        \E k, l \in 1..Len(prog[c].fields[i].members) :
            prog[c].fields[i].members[k] # 0 /\ prog[c].fields[i].members[l] = 0

\* C10: parse of a model with a schema definition error ends with an exit
\* status that is neither 0 nor the 1 of user input errors.
C10_SchemaErrorStatus ==
    (cli.stage = "done" /\ (DuplicateShort(cli.prog) \/ MixedMembers(cli.prog)))
        => (cli.kind = "SystemExit" /\ cli.code \notin {0, 1})

\* C11: parse of a schema in which one model, the root's or a nested
\* variant's, gives one short alias to two fields ends in the schema error
\* straight from validate_model, for every input: no later stage of parse is
\* entered and nothing of the input is stored or set aside as unrecognized.
C11_SchemaErrorFirst ==
    DuplicateShort(cli.prog) =>
        /\ cli.stage \in {"validate", "done"}
        /\ cli.stage = "done" =>
              /\ cli.kind = "SystemExit" /\ cli.code = SchemaErrorStatus
              /\ cli.error = "TooManyShortsException"
              /\ cli.ns = <<>> /\ cli.extras = <<>>

\* The duplicate is in a variant of the root's union, and the input holds
\* the help marker and a word no parser would recognize.
C11_Witness ==
    /\ cli.prog = NestedTwoShorts
    /\ cli.stage = "done" /\ cli.error = "TooManyShortsException"
    /\ arguments = <<HelpKey, <<"x">>, <<"-", "-", "m", "-", "v">>>>

\* Two members of one subcommand union have the same surface name.
SameVariantNames(prog) ==
    \E c \in 1..Len(prog) : \E f \in 1..Len(prog[c].fields) :
        \E k, l \in 1..Len(prog[c].fields[f].members) :
            LET m == prog[c].fields[f].members
            IN  /\ k # l /\ m[k] # 0 /\ m[l] # 0
                /\ Dashed(to_snake(prog[m[k]].name)) = Dashed(to_snake(prog[m[l]].name))

\* C12: parse of a schema with two variants of one surface name ends in the
\* schema error of validate_model and enters no later stage.
C12_SameNamesRejected ==
    SameVariantNames(cli.prog) =>
        /\ cli.stage \in {"validate", "done"}
        /\ cli.stage = "done" => (cli.kind = "SystemExit" /\ cli.code = SchemaErrorStatus)

\* C20: when a constructor rejects the mapping of a namespace, the root's or
\* a nested one's, parse ends in a FieldError with exit status 1.
C20_RejectionIsFieldError ==
    (cli.stage = "done" /\ cli.ns # <<>> /\ MaterializeRaises(cli.prog, cli.ns))
        => (cli.kind = "SystemExit" /\ cli.code = 1 /\ cli.error = "FieldError")

(***************************************************************************)
(* Two parses, the variant loop and the cursor                             *)
(***************************************************************************)
\* The parse on the second tree has ended too.
BothEnded == first.kind = "ended" /\ ParseEnded

RECURSIVE DepthFrom(_, _)
DepthFrom(nodes, n) ==
    LET below == {DepthFrom(nodes, nodes[n].sub_commands[k]) :
                     k \in 1..Len(nodes[n].sub_commands)}
    IN  1 + (IF below = {} THEN 0 ELSE CHOOSE d \in below : \A e \in below : e <= d)

\* The scan loop of the innermost call goes round again.
LoopContinues ==
    /\ At_("scan")
    /\ Len(stack') = Len(stack)
    /\ Top' .pc = "scan"

\* C23: Command.match terminates: every call of match ends (with a return or
\* an exception); a pass of the scan loop after which the loop goes on has
\* strictly advanced the cursor, which stays within the input, so that a
\* node makes at most len(input) consuming passes; and the calls of match
\* active at once are never more than the depth of the schema tree.
C23_MatchTerminates ==
    /\ <>[](outcome.kind # "running")
    /\ [][LoopContinues => /\ Top' .idx > Top.idx
                           /\ Top' .idx <= Len(arguments)]_vars
    /\ [](Len(stack) <= DepthFrom(schema, 1))

C23_Witness ==
    /\ outcome.kind = "returned"
    /\ outcome.idx >= 3
    /\ Len(arguments) >= 3
    /\ \E n \in 2..Len(schema) : returns[n].done /\ returns[n].success
    /\ \E n \in 1..Len(schema) : \E i \in 1..Len(schema[n].tokens) : tokens[n][i].has

\* C24: every variant of a node's subcommand group is attempted from the
\* same cursor, whatever the variants attempted before it returned: any two
\* variants of one node whose match was called were given the same idx.
C24_VariantsFromSameCursor ==
    \A n \in 1..Len(schema) :
        \A a, b \in Range(schema[n].sub_commands) :
            returns[a].done /\ returns[b].done => returns[a].entry = returns[b].entry

\* The variants of node n whose match returned success.
Successes(n) ==
    {v \in Range(schema[n].sub_commands) : returns[v].done /\ returns[v].success}

\* C25: when exactly one variant of a group succeeds, the cursor the node's
\* match returns is the cursor that variant's match returned, whatever the
\* other variants returned and wherever the variant is declared.
C25_CommittedCursor ==
    \A n \in 1..Len(schema) :
        (/\ returns[n].done /\ returns[n].success
         /\ schema[n].sub_commands # <<>>)
        => \A v \in Successes(n) : returns[n].idx = returns[v].idx

\* C26: a match that reports failure returns the cursor it was entered with,
\* also when the subcommand's name had been consumed before the failure.
C26_FailureRewinds ==
    \A n \in 1..Len(schema) :
        returns[n].done /\ ~returns[n].success => returns[n].idx = returns[n].entry

\* The completeness check of a subcommand variant is about to fail.
VariantIncomplete ==
    /\ At_("check")
    /\ Callers # <<>>
    /\ NonMatchingRequired(schema[Top.node].tokens, tokens[Top.node]) # <<>>

\* C27: a subcommand variant whose completeness check fails is reported to
\* its parent as a failed alternative with the cursor rewound to the
\* variant's entry point, and the parent's loop over its variants goes on.
C27_IncompleteVariantIsAlternative ==
    [][VariantIncomplete =>
          /\ outcome' .kind = "running"
          /\ Len(stack') = Len(stack) - 1
          /\ Top' .pc = "subs"
          /\ returns'[Top.node] =
                [done |-> TRUE, success |-> FALSE, idx |-> Top.entry, entry |-> Top.entry]]_vars

\* The parent of node n in the schema tree (0 for the root).
Parent(n) ==
    IF \E m \in 1..Len(schema) : n \in Range(schema[m].sub_commands)
    THEN CHOOSE m \in 1..Len(schema) : n \in Range(schema[m].sub_commands)
    ELSE 0

\* Node n is the root or the variant its parent's match committed to, and so
\* is its parent.
RECURSIVE OnCommittedPath(_)
OnCommittedPath(n) ==
    \/ n = 1
    \/ /\ Parent(n) # 0
       /\ returns[Parent(n)].done /\ returns[Parent(n)].success
       /\ sub_commands[Parent(n)] = <<n>>
       /\ OnCommittedPath(Parent(n))

\* Some token of node n holds a capture.
HasCapture(n) == \E i \in 1..Len(schema[n].tokens) : tokens[n][i].has

\* C28: the captures made while a variant is attempted stay in that variant:
\* a variant's match starts on tokens without a capture whatever its
\* siblings captured; a step of a node's match changes the tokens of that
\* node only, so attempting a variant leaves its parent's captures as they
\* were; and the mapping built for the instance takes, for each node on the
\* committed path and for no other node, the captures of that node's tokens
\* (the instance of a match that succeeded: only then is a variant committed).
C28_CapturesStayInVariant ==
    /\ [](At_("name") => ~HasCapture(Top.node))
    /\ [](outcome.success =>
             \A n \in 1..Len(schema) :
                 built.nodes[n].parsed => /\ OnCommittedPath(n)
                                         /\ built.nodes[n].match = Mapping(tokens[n]))
    /\ [][outcome.kind = "running" /\ stack # <<>> =>
             \A n \in 1..Len(schema) : n # Top.node => tokens'[n] = tokens[n]]_vars

\* A variant that captured a value and failed, beside the committed one.
C28_Witness ==
    /\ built.result = "instance"
    /\ \E n \in 2..Len(schema) :
          /\ returns[n].done /\ ~returns[n].success
          /\ HasCapture(n)
          /\ ~built.nodes[n].parsed
          /\ sub_commands[Parent(n)] # <<n>>

\* A cursor of the input: 0 .. len(input).
IsCursor(idx) == idx \in 0..Len(arguments)

\* The calls of match that are active before and after a step.
Staying == {k \in 1..Len(stack) : k <= Len(stack') /\ stack'[k].node = stack[k].node}

\* C29: every cursor of a match (the idx and start_idx of each active call,
\* the cursor of each return and of the end of the match) is within
\* 0 .. len(input); a pass of the scan loop in which a token matched moves
\* the cursor forward by 1 or by 2; and the cursor of an active call never
\* decreases: only the cursor a failed match returns is behind the one that
\* match had reached.
C29_CursorInRangeAndMonotonic ==
    /\ [](/\ \A k \in 1..Len(stack) : /\ IsCursor(stack[k].idx)
                                      /\ IsCursor(stack[k].start_idx)
                                      /\ IsCursor(stack[k].entry)
          /\ \A n \in 1..Len(schema) : IsCursor(returns[n].idx)
          /\ IsCursor(outcome.idx))
    /\ [][LoopContinues => Top' .idx - Top.idx \in {1, 2}]_vars
    /\ [][outcome.kind = "running" => \A k \in Staying : stack'[k].idx >= stack[k].idx]_vars
    /\ [](\A n \in 1..Len(schema) :
             returns[n].done => /\ returns[n].idx >= returns[n].entry
                                /\ returns[n].success \/ returns[n].idx <= returns[n].entry + 1)

\* A match that had moved its cursor forward by 2 and was abandoned.
C29_Witness ==
    /\ outcome.kind = "returned"
    /\ \E n \in 2..Len(schema) :
          /\ returns[n].done /\ ~returns[n].success
          /\ \E i \in 1..Len(schema[n].tokens) :
                tokens[n][i].has /\ schema[n].tokens[i].kind \in KeyedKinds
          /\ returns[n].idx + 2 <= Len(arguments)

\* C30: within one parse a captured value is written once: after a
\* positional, optional keyed or boolean-flag token has captured a value, no
\* step of the match replaces it (a collection only appends to its list).
C30_CapturedOnce ==
    [][outcome.kind = "running" /\ stack # <<>> =>
          \A n \in 1..Len(schema) : \A i \in 1..Len(schema[n].tokens) :
              tokens[n][i].has =>
                  IF schema[n].tokens[i].kind \in CollectionKinds
                  THEN /\ Len(tokens'[n][i].items) >= Len(tokens[n][i].items)
                       /\ SubSeq(tokens'[n][i].items, 1, Len(tokens[n][i].items))
                              = tokens[n][i].items
                  ELSE /\ tokens'[n][i].has
                       /\ tokens'[n][i].val = tokens[n][i].val
                       /\ tokens'[n][i].flag = tokens[n][i].flag]_vars

(***************************************************************************)
(* Properties of writing out and matching again                            *)
(***************************************************************************)
\* The parse of the written instance has ended.
RoundTripEnded == first.kind = "written" /\ ParseEnded

\* The match consumed the whole sequence and the mapping of every node of
\* the instance is the instance's, with no other node in it.
Reproduced ==
    /\ outcome.kind = "returned" /\ outcome.success
    /\ outcome.idx = Len(arguments)
    /\ built.result = "instance"
    /\ \A n \in 1..Len(schema) :
          IF n \in Range(first.path)
          THEN built.nodes[n].parsed /\ built.nodes[n].match = first.nodes[n]
          ELSE ~built.nodes[n].parsed

\* No optional flag, whose spellings depend on its default.
Unambiguous(nodes) ==
    \A n \in 1..Len(nodes) : \A i \in 1..Len(nodes[n].tokens) :
        nodes[n].tokens[i].kind # "OptionalBooleanFlag"

\* C22: for a schema without default-dependent flag spellings, an instance
\* written out as its token spellings and matched on a fresh tree gives a
\* field mapping equal to the instance and consumes the whole sequence.
C22_RoundTrip == RoundTripEnded /\ Unambiguous(schema) => Reproduced

\* No positional value of the instance begins with "-" and no required
\* collection is empty.
Writable(inst) ==
    \A k \in 1..Len(inst.path) :
        LET n == inst.path[k]
        IN  \A i \in 1..Len(schema[n].tokens) :
                /\ schema[n].tokens[i].kind \in PositionalKinds
                       => ~StartsWithDash(inst.nodes[n][i].val)
                /\ schema[n].tokens[i].kind = "Collection"
                       => inst.nodes[n][i].items # <<>>

\* C22, amended: the round trip reproduces every instance in which no
\* positional value begins with "-" and no required collection is empty,
\* with optional flags in the schema or without.
C22_RoundTripWritable == RoundTripEnded /\ Writable(first) => Reproduced

C22_Witness ==
    /\ RoundTripEnded /\ Writable(first) /\ Reproduced
    /\ Len(first.path) >= 2
    /\ \E k \in 1..Len(first.path) :
          \E i \in 1..Len(schema[first.path[k]].tokens) :
              /\ schema[first.path[k]].tokens[i].kind \in KeyedKinds
              /\ first.nodes[first.path[k]][i].has


\* model_validate of node n is the next step: its subcommand's parse() has
\* returned, or the node has no subcommand.
Validating(n) ==
    built.result = "parsing" /\ stack # <<>> /\ Top.pc = "validate" /\ Top.node = n

\* C31: when the constructor of a matched node with a committed variant is
\* invoked, the variant's instance is built already (its model_validate has
\* returned), and the mapping the constructor is given holds the captures of
\* the node's own tokens and, under the subcommand field, the instance of the
\* committed variant; a node whose constructor has returned was given them.
C31_VariantBuiltFirst ==
    /\ [][\A n \in 1..Len(schema) :
             (outcome.success /\ Validating(n) /\ sub_commands[n] # <<>>) =>
                 /\ Len(sub_commands[n]) = 1
                 /\ built.nodes[sub_commands[n][1]].instance
                 /\ ~built.nodes[n].instance
                 /\ built.nodes[n].match = Mapping(tokens[n])
                 /\ built'.nodes[n].match = Mapping(tokens[n])
                 /\ built'.nodes[n].sub = sub_commands[n][1]]_vars
    /\ [](outcome.success =>
             \A n \in 1..Len(schema) :
                 (built.nodes[n].instance /\ schema[n].sub_commands # <<>>) =>
                     /\ built.nodes[n].sub \in Range(schema[n].sub_commands)
                     /\ built.nodes[built.nodes[n].sub].instance)

\* The root's constructor has returned with a nested variant's instance under
\* the subcommand field of the variant above it.
C31_Witness ==
    /\ schema = GitModel /\ outcome.success
    /\ built.result = "instance"
    /\ built.nodes[1].sub = 2 /\ built.nodes[2].sub = 3
    /\ built.nodes[3].instance /\ built.nodes[3].match[1].has


\* The sequential matcher has returned success for a schema without a
\* subcommand group.
SequentialAccepted == schema \in SmplFlat /\ cli.stage # "tokenized" /\ cli.success

\* Command.match on the same input returns (it raises nothing), its tokens
\* holding the captures the sequential tokens would hand to the constructor.
RescanAcceptsTheSame ==
    LET m == MatchFlat(schema[1].tokens, arguments)
    IN  /\ m.kind = "returned"
        /\ Mapping(m.sts) = SmplMapping(schema, cli.tree, 1, SmplValues)

\* C32 as stated: every input the sequential Subcommand.match accepts, for a
\* schema of positional values and optional keyed values, Command.match
\* accepts too, with the same captured field mapping.
C32_RescanAtLeastAsPermissive == SequentialAccepted => RescanAcceptsTheSame

\* The sequential match consumed the whole input and not more, took no word
\* that starts with a dash as a positional value, and took options only by
\* keys that both implementations spell alike (a field without underscore).
SequentialWhole ==
    /\ cli.idx = Len(SmplValues)
    /\ \A i \in 1..Len(schema[1].tokens) :
          LET tok == schema[1].tokens[i]
              indices == cli.tree[1].args[i]
          IN  indices # NoIndices =>
                 IF SmplPositional(tok)
                 THEN ~StartsWithDash(At(SmplValues, indices[1]))
                 ELSE SmplKey(tok) = _to_key(tok.field)

\* C32, amended: every input the sequential matcher accepts and consumes
\* exactly, whose positional values do not start with a dash and whose
\* options are given by keys both implementations spell alike, Command.match
\* accepts too, with the same captured field mapping and the same cursor
\* (the sequential one counts the entry word put before the input).
C32_RescanAcceptsWholeInputs ==
    (SequentialAccepted /\ SequentialWhole) =>
        /\ RescanAcceptsTheSame
        /\ MatchFlat(schema[1].tokens, arguments).idx = cli.idx - 1

\* An option before two positionals, all three captured by both matchers.
C32_Witness ==
    /\ schema = OptFirst /\ cli.stage = "ended"
    /\ SequentialAccepted /\ SequentialWhole
    /\ \A i \in 1..3 : cli.tree[1].args[i] # NoIndices
    /\ RescanAcceptsTheSame


\* A variant of node n has consumed its name: its Command.match is running,
\* or its match has returned a cursor past the one it was given.
NameConsumed(n) ==
    \E m \in Range(schema[n].sub_commands) :
        \/ \E f \in 1..Len(stack) : stack[f].node = m /\ stack[f].pc # "name"
        \/ returns[m].done /\ returns[m].idx > returns[m].entry

\* Some token of node n recognizes the word w as one of its keys.
Recognizes(n, w) ==
    \E i \in 1..Len(schema[n].tokens) : w \in Range(user_keys(schema[n].tokens[i]))

\* C33: once a variant of a node has consumed its name, no token of the node
\* is offered the cursor again: the node's tokens stay as they are, so an
\* option of the parent spelled after the name is not captured by the parent.
\* The node that scans captures a dashed word only if one of its own tokens
\* recognizes it, and otherwise leaves it unconsumed: the cursor stays on it
\* and no token changes.
C33_ParentNotOfferedAgain ==
    /\ [][\A n \in 1..Len(schema) : NameConsumed(n) => tokens'[n] = tokens[n]]_vars
    /\ [][(/\ At_("scan") /\ InRange(arguments, Top.idx)
           /\ StartsWithDash(At(arguments, Top.idx))
           /\ ~Recognizes(Top.node, At(arguments, Top.idx))) =>
              /\ tokens' = tokens
              /\ stack' = [stack EXCEPT ![Len(stack)] = [@ EXCEPT !.pc = "check"]]]_vars
    /\ [](outcome.kind = "returned" =>
             \A n \in 1..Len(schema) : \A i \in 1..Len(schema[n].tokens) :
                 (tokens[n][i].has /\ schema[n].tokens[i].kind \notin PositionalKinds) =>
                     tokens[n][i].used_arg \in Range(user_keys(schema[n].tokens[i])))

\* The parent's option and a value stand after the name of the committed
\* variant, which does not recognize the option: the parent did not capture
\* it and the cursor returned is the one before it.
C33_Witness ==
    /\ schema = UnionModel
    /\ outcome.kind = "returned" /\ outcome.success
    /\ sub_commands[1] = <<3>>
    /\ Len(arguments) = 4 /\ arguments[3] = _to_key(schema[1].tokens[1].field)
    /\ ~tokens[1][1].has
    /\ outcome.idx = 2


\* The scan of the running node stands on the key of its token i, a keyed
\* option or a collection, with the help marker in the value slot.
HelpInValueSlot(i) ==
    /\ At_("scan") /\ _is_help_key(Top.idx + 1, arguments)
    /\ schema[Top.node].tokens[i].kind \in KeyedKinds \cup CollectionKinds
    /\ At(arguments, Top.idx) \in Range(user_keys(schema[Top.node].tokens[i]))

Taken(n, i, idx, idx2) ==
    LET tok == schema[n].tokens[i]
        st == tokens'[n][i]
    IN  /\ st.has
        /\ CASE tok.kind \in PositionalKinds ->
                    idx2 = idx + 1 /\ st.val = At(arguments, idx)
             [] tok.kind \in FlagKinds ->
                    idx2 = idx + 1 /\ st.used_arg = At(arguments, idx)
             [] tok.kind \in KeyedKinds ->
                    /\ idx2 = idx + 2 /\ st.used_arg = At(arguments, idx)
                    /\ st.val = At(arguments, idx + 1)
             [] tok.kind \in CollectionKinds ->
                    /\ idx2 = idx + 2 /\ st.used_arg = At(arguments, idx)
                    /\ st.items = Append(tokens[n][i].items, At(arguments, idx + 1))

\* No token of node n takes the word w: it is no key of a keyed token, and
\* it starts with a dash or every positional holds a capture already.
Unrecognized(n, w) ==
    \A i \in 1..Len(schema[n].tokens) :
        IF schema[n].tokens[i].kind \in PositionalKinds
        THEN StartsWithDash(w) \/ tokens[n][i].has
        ELSE w \notin Range(user_keys(schema[n].tokens[i]))

\* The scan of node n is over: its match is past the loop, or has returned.
ScanOver(n) ==
    \/ returns[n].done
    \/ \E f \in 1..Len(stack) : stack[f].node = n /\ stack[f].pc \in {"check", "subs"}

\* C35: a pass of a node's scan that does not raise either moves the cursor,
\* and then exactly one token of the node has taken the words between the
\* old and the new cursor and every other token is as it was, or leaves the
\* cursor and every token as they were and ends the scan; the scan ends on
\* the first word no token of the node recognizes, or at the end of the
\* input; and once it has ended, no token of the node changes any more, so
\* nothing behind that word is captured by the node.
C35_ScanContiguous ==
    /\ [][(At_("scan") /\ stack' # <<>>) =>
             LET n == Top.node
                 idx2 == stack'[Len(stack')].idx
                 loops == stack'[Len(stack')].pc = "scan"
             IN  /\ stack' = [stack EXCEPT ![Len(stack)] =
                                 [@ EXCEPT !.idx = idx2,
                                           !.pc = IF loops THEN "scan" ELSE "check"]]
                 /\ \A m \in 1..Len(schema) : m # n => tokens'[m] = tokens[m]
                 /\ IF idx2 = Top.idx
                    THEN tokens' = tokens /\ ~loops
                    ELSE /\ loops
                         /\ \E i \in 1..Len(schema[n].tokens) :
                               /\ Taken(n, i, Top.idx, idx2)
                               /\ \A j \in 1..Len(schema[n].tokens) :
                                     j # i => tokens'[n][j] = tokens[n][j]
                 /\ ~loops <=> \/ Top.idx = Len(arguments)
                               \/ Unrecognized(n, At(arguments, Top.idx))]_vars
    /\ [][\A n \in 1..Len(schema) : ScanOver(n) => tokens'[n] = tokens[n]]_vars
    /\ [](stack # <<>> => Top.idx >= Top.start_idx /\ Top.idx <= Len(arguments))

\* Two positionals taken from the entry cursor on, the scan stopped by a
\* third plain word, and a flag behind it that was not captured.
C35_Witness ==
    /\ schema = FlatModel
    /\ outcome.kind = "returned" /\ outcome.success /\ outcome.idx = 2
    /\ Len(arguments) = 4 /\ arguments[4] = _to_key(schema[1].tokens[4].field)
    /\ tokens[1][1].has /\ tokens[1][3].has /\ ~tokens[1][4].has


\* match of token i of the scanning node, called on the cursor of the scan,
\* returns (False, idx): it reports no match (and raises nothing).
ReportsNoMatch(i) ==
    LET r == TokenMatch(schema[Top.node].tokens[i], tokens[Top.node][i], Top.idx, arguments)
    IN  ~r.ok /\ ~r.raised

\* C36: a match call of a token of any class that reports no match returns
\* the cursor it was given and the token as it was (its _match and its
\* used_arg); in the pass of the scan, every token whose call reports no
\* match is afterwards as before, as is every token of every other node; and
\* a pass in which every token reports no match leaves the cursor.
C36_NoMatchChangesNothing ==
    /\ [](At_("scan") =>
             \A i \in 1..Len(schema[Top.node].tokens) :
                 LET r == TokenMatch(schema[Top.node].tokens[i], tokens[Top.node][i],
                                     Top.idx, arguments)
                 IN  ReportsNoMatch(i) => r.idx = Top.idx /\ r.st = tokens[Top.node][i])
    /\ [][(At_("scan") /\ Top.idx < Len(arguments)) =>
             /\ \A i \in 1..Len(schema[Top.node].tokens) :
                   ReportsNoMatch(i) => tokens'[Top.node][i] = tokens[Top.node][i]
             /\ \A m \in 1..Len(schema) : m # Top.node => tokens'[m] = tokens[m]
             /\ (\A i \in 1..Len(schema[Top.node].tokens) : ReportsNoMatch(i)) =>
                   stack' = [stack EXCEPT ![Len(stack)] = [@ EXCEPT !.pc = "check"]]]_vars

\* A pass in which all four tokens reported no match on a word inside the
\* input: the positional and the keyed option hold what they captured before.
C36_Witness ==
    /\ schema = FlatModel
    /\ At_("check") /\ Top.idx < Len(arguments)
    /\ tokens[1][1].has /\ tokens[1][1].val = arguments[1]
    /\ tokens[1][2].has /\ tokens[1][2].used_arg = arguments[2]
       /\ tokens[1][2].val = arguments[3]
    /\ Top.idx = 3



\* The first match captured a positional value in a node of the branch it
\* committed to.
PositionalCaptured ==
    \E n \in Branch(1) : \E i \in 1..Len(schema[n].tokens) :
        schema[n].tokens[i].kind \in PositionalKinds /\ first.tokens[n][i].has

\* The second match of an input whose first match captured a positional
\* value has returned.
SecondReturned ==
    first.kind = "matched" /\ PositionalCaptured /\ outcome.kind = "returned"

\* C37 as stated: after a successful match that captured a positional value,
\* the second match of the same input on the same tree returns a smaller
\* cursor than the first.
C37_SecondCursorSmaller == SecondReturned => outcome.idx < first.outcome.idx

\* C37, amended: the captures of a match are still there when match is
\* called again on the same tree: the second match starts from the tokens as
\* the first one left them, a token that holds a capture keeps holding one,
\* and no positional token changes during the second match (one that holds
\* a capture reports no match).  For a tree without subcommand variants the
\* second match of an input whose first match captured a positional value
\* does not raise and returns a smaller cursor than the first.
C37_SecondMatchStopsEarlier ==
    /\ [][MatchAgain => tokens' = tokens /\ sub_commands' = sub_commands]_vars
    /\ [][\A n \in 1..Len(schema) : \A i \in 1..Len(schema[n].tokens) :
             /\ tokens[n][i].has => tokens'[n][i].has
             /\ (first.kind = "matched" /\ schema[n].tokens[i].kind \in PositionalKinds) =>
                    tokens'[n][i] = tokens[n][i]]_vars
    /\ []((first.kind = "matched" /\ PositionalCaptured /\ Len(schema) = 1) =>
             /\ outcome.kind \in {"running", "returned"}
             /\ outcome.kind = "returned" =>
                   outcome.success /\ outcome.idx < first.outcome.idx)

\* The second match of ['--p', 'x', 'y'] has returned: the flag matched
\* again, the positionals hold what the first match gave them, and the
\* cursor is 1 where the first returned 3.
C37_Witness ==
    /\ schema = FlatModel /\ SecondReturned
    /\ first.outcome.idx = 3 /\ outcome.idx = 1
    /\ tokens[1][1].has /\ tokens[1][1].val = arguments[2]
    /\ tokens[1][3].has /\ tokens[1][3].val = arguments[3]
    /\ tokens[1][4].has


\* The largest of a set of cursors, 0 for none.
MaxOf(S) == IF S = {} THEN 0 ELSE CHOOSE x \in S : \A y \in S : y <= x

\* The index just past the last word that node n of the sequential tree and
\* the variant it committed to have consumed: the largest stop among the
\* indices of the node's name, of its HelpArg, of its tokens, and of the
\* variant left in sub_commands.
RECURSIVE LastStop(_)
LastStop(n) ==
    LET t == cli.tree[n]
        own == {t.indices[2]}
                 \cup (IF t.help = NoIndices THEN {} ELSE {t.help[2]})
                 \cup {t.args[i][2] : i \in {j \in 1..Len(t.args) : t.args[j] # NoIndices}}
    IN  MaxOf(own \cup (IF schema[n].sub_commands # <<>> /\ Len(t.sub_commands) = 1
                        THEN {LastStop(t.sub_commands[1])} ELSE {}))

\* C38: every successful match of the sequential Subcommand, at every depth,
\* returns the absolute index just past the last word the node and its
\* committed variant consumed, an index that is at most the input length.
C38_AbsoluteCursor ==
    \A n \in 1..Len(schema) :
        (cli.stage # "tokenized" /\ cli.tree[n].ret.done /\ cli.tree[n].ret.success) =>
            /\ cli.tree[n].ret.idx = LastStop(n)
            /\ cli.tree[n].ret.idx <= Len(SmplValues)


\* C39: parse of the sequential Subcommand runs only on a tree whose match
\* succeeded: whenever it has run, match had returned success, the assertion
\* `len(self.sub_commands) <= 1` held in every node it came to and every
\* PositionalArg it read had its indices.
C39_ParseAfterSuccessOnly ==
    cli.stage = "ended" /\ cli.parsed.kind # "ValueError" =>
        /\ cli.success
        /\ cli.parsed.kind \notin {"AssertionError", "TypeError"}


\* The field is a scalar: to_argparse takes the branch of lines 116-120.
Scalar(fld) == fld.annotation \in {"str", "int"}

\* The strings of args that select the option of the field: the option
\* itself or an abbreviation of it.
Selects(fld, w) ==
    /\ IsPrefix(<<"-", "-">>, w)
    /\ \/ IsPrefix(w, <<"-", "-">> \o Argument(fld))
       \/ fld.annotation = "bool" /\ IsPrefix(w, <<"-", "-", "n", "o", "-">> \o Argument(fld))

\* The value stored for the field was given behind its option.
GivenByKey(fld, stored) ==
    \E i \in 1..Len(arguments) :
        /\ Selects(fld, arguments[i])
        /\ fld.annotation # "bool" => i < Len(arguments) /\ arguments[i + 1] = stored.val

\* C40: a field is required exactly when it has no default (a default of
\* None, of False or of any other value makes it optional); a required
\* scalar field becomes a positional and an optional one the keyed option
\* `--name`; a value argparse stored for an optional field was given behind
\* that key, never as a bare positional string, and a model whose fields are
\* all optional rejects a line of bare strings.
C40_RequiredIffNoDefault ==
    /\ cli.prog = DefaultsModel =>
           \A i \in 1..Len(Declared) :
               ArgRequired(cli.prog[1].fields[i]) <=> Declared[i].default = PydanticUndefined
    /\ \A i \in 1..Len(cli.prog[1].fields) :
           LET fld == cli.prog[1].fields[i]
               act == ToArgparse(cli.prog, 1)[i]
           IN  Scalar(fld) =>
                  /\ act.action = "positional" <=> ArgRequired(fld)
                  /\ act.action = "store" <=> ~ArgRequired(fld)
                  /\ act.action = "store" => act.strings = <<(<<"-", "-">> \o Argument(fld))>>
    /\ cli.stage \in {"materialize", "done"} =>
           \A l \in 1..Len(cli.ns) :
               \A f \in 1..Len(cli.prog[cli.ns[l].cls].fields) :
                   LET fld == cli.prog[cli.ns[l].cls].fields[f]
                   IN  ~ArgRequired(fld) /\ cli.ns[l].ns[f].has
                          => GivenByKey(fld, cli.ns[l].ns[f])
    /\ (/\ cli.stage = "done"
        /\ \A i \in 1..Len(cli.prog[1].fields) : ~ArgRequired(cli.prog[1].fields[i])
        /\ arguments # <<>>
        /\ \A i \in 1..Len(arguments) : ~StartsWithDash(arguments[i]))
          => cli.kind = "SystemExit" /\ cli.code = 2

\* M is built from a line with a bare string and a keyed one: the bare
\* string went to the required r, the keyed one to the optional n, and s,
\* which has a default, was given nothing.
C40_Witness ==
    /\ cli.prog = DefaultsModel
    /\ cli.stage = "done" /\ cli.kind = "instance"
    /\ arguments = <<(<<"x">>), <<"-", "-", "n">>, <<"1">>>>
    /\ cli.ns[1].ns[1] = [has |-> TRUE, val |-> <<"x">>, flag |-> FALSE]
    /\ cli.ns[1].ns[2] = [has |-> TRUE, val |-> <<"1">>, flag |-> FALSE]
    /\ ~cli.ns[1].ns[3].has

====
